---- MODULE Spec2Model ----
(***************************************************************************)
(* Reconciliation engine of the Voxies rental bot (src/unnamed/part_000):   *)
(* processRentals = load store, manageTrackedRentals, discoverAndList-      *)
(* UntrackedItems, save store; with the transaction submitter               *)
(* (cancelRental, createVoxiesRental) and the pricing helpers.              *)
(* The ledger (loan contract, ERC721 collections, RPC node) is the          *)
(* environment: every read either answers from the ledger state or throws,  *)
(* every transaction either lands or does not, as the environment chooses.  *)
(***************************************************************************)
EXTENDS Integers, Sequences, FiniteSets, TLC

VARIABLES
    now,        \* Date.now() in seconds, fixed for the duration of a pass
    owner,      \* ledger: owner[c][t] of token t in collection c
    loans,      \* ledger: loanItems, loan id = index - 1
    uuidCtr,    \* number of correlation tokens drawn from uuidv4 so far
    file,       \* rental_prices.json
    fileOk,     \* rental_prices.json can be read and parsed
    mem,        \* rentalInfoMap of the running pass
    pc,         \* position of the process
    todo,       \* keys of rentalInfoMap still to be visited by manageTrackedRentals
    dcoll,      \* index into the contracts array of the discovery loop
    ditems,     \* tokens still to be enumerated in the current collection
    passes,     \* number of passes started
    log,        \* what the running (or last) pass did, in order
    prevListed, \* assets listed with success by the previous completed pass
    quiet,      \* no ledger change and one cron period since the previous pass
    faults,     \* failed reads and failed transactions so far
    touched,    \* the ledger was changed from outside since the last run
    txIn,       \* submitter harness: the call and the environment's answers
    txOut       \* submitter harness: what the call returned

vars == <<now, owner, loans, uuidCtr, file, fileOk, mem, pc, todo, dcoll, ditems,
          passes, log, prevListed, quiet, faults, touched, txIn, txOut>>

passVars == <<now, owner, loans, uuidCtr, file, fileOk, mem, pc, todo, dcoll, ditems,
              passes, log, prevListed, quiet, faults, touched>>

-----------------------------------------------------------------------------
(* Bounds of the model *)

MaxToken == 2
MaxPasses == 2
MaxPolls == 2
MaxLogs == 2
MaxFaults == 1
\* the largest price a record is followed to
MaxPrice == 60
\* the runs of the process that are followed: the initial one and the cron ticks
MaxRuns == 3
MaxRentals == 2
MaxDriftDays == 14

(* CONFIG *)

RENTAL_DURATION == 604800
MIN_PRICE_FOR_DECREASE == 3
QUICK_RENTAL_MINUTES == 180
PRICE_DROP_DAYS == 3
MAX_RETRY_ATTEMPTS == 3
DEFAULT_RENTAL_PRICE == 5
CRON_PERIOD == 21600
DAY == 86400
StartTime == 1000000

\* an optional field that is undefined
NoValue == -1

ME == "me"
SOMEONE == "someone"
ZERO == "zero"
NONE == "none"

NFT == "nft"
VOXIE == "voxie"
UNKNOWN == ""
Collections == <<NFT, VOXIE>>
CollSet == {NFT, VOXIE}
Tokens == 1..MaxToken

\* JavaScript truthiness of an optional number: undefined and 0 are falsy
Falsy(x) == x = NoValue \/ x = 0

-----------------------------------------------------------------------------
(* Pricing helpers *)

\* prices p up to 200 for which the double p * 1.1 lies above the exact 11p/10
\* when that is an integer, so that Math.ceil gives one more
CeilOff == {50, 90, 100, 110, 170, 180, 190, 200}

IncreasePrice(p) ==
    LET exact == (11 * p + 9) \div 10
    IN  IF p \in CeilOff THEN exact + 1 ELSE exact

DecreasePrice(p) == (9 * p) \div 10

isLoanExpiredNever(endTime, t) == FALSE

isLoanExpired(endTime, t) ==
    IF Falsy(endTime) THEN FALSE ELSE t > endTime

isLoanListedGreatThanDaysAlways(timestamp, days, t) == ~Falsy(timestamp)

isLoanListedGreatThanDays(timestamp, days, t) ==
    IF Falsy(timestamp) THEN FALSE ELSE t - timestamp > DAY * days

isLoanRentedQuickly(timestamp, startingTime, minutes) ==
    IF Falsy(timestamp) \/ Falsy(startingTime) THEN FALSE
    ELSE (startingTime - timestamp) < 60 * minutes

-----------------------------------------------------------------------------
(* Ledger *)

LoanIds(L) == 0..(Len(L) - 1)

\* loanItems(id): a Solidity mapping answers an unknown id with the zero struct
ZeroLoan ==
    [owner |-> ZERO, loanee |-> ZERO, startingTime |-> 0, endTime |-> 0,
     canceled |-> FALSE, coll |-> UNKNOWN, token |-> 0, uuid |-> NoValue, price |-> 0]

LoanItems(L, id) == IF id \in LoanIds(L) THEN L[id + 1] ELSE ZeroLoan

Bundled(L, c, t) ==
    \E i \in 1..Len(L) : L[i].coll = c /\ L[i].token = t /\ ~L[i].canceled

\* a contract that lists an asset whatever its state
CanCreateAlways(L, own, c, t) == TRUE

\* createLoanableItem lands only for an asset the sender holds and that is not locked
CanCreate(L, own, c, t) ==
    /\ c \in CollSet
    /\ t \in Tokens
    /\ own[c][t] = ME
    /\ ~Bundled(L, c, t)

\* cancelLoan lands only for a live loan of the sender
CanCancel(L, id) ==
    /\ id \in LoanIds(L)
    /\ L[id + 1].owner = ME
    /\ ~L[id + 1].canceled

NewLoan(c, t, price, uuid, t0) ==
    [owner |-> ME, loanee |-> ZERO, startingTime |-> 0, endTime |-> t0 + RENTAL_DURATION,
     canceled |-> FALSE, coll |-> c, token |-> t, uuid |-> uuid, price |-> price]

-----------------------------------------------------------------------------
(* Transaction submitter: the environment's answers to one attempt *)

\* events a receipt can carry, by kind: the listing event of this transaction,
\* a second listing event, an event parseLog does not recognise
LogKinds == {"created", "created2", "foreign"}

RECURSIVE SeqsUpTo(_, _)
SeqsUpTo(S, n) ==
    IF n = 0 THEN {<<>>}
    ELSE LET shorter == SeqsUpTo(S, n - 1)
         IN  shorter \cup {Append(q, x) : q \in {r \in shorter : Len(r) = n - 1}, x \in S}

LogShapes == SeqsUpTo(LogKinds, MaxLogs)

Env(pre, wait, fetch, landed, status, shape) ==
    [pre |-> pre, wait |-> wait, fetch |-> fetch, landed |-> landed,
     status |-> status, shape |-> shape]

\* getFeeData, estimateGas or the submission itself throws
PreFailEnvs ==
    {Env(p, "-", "-", FALSE, 0, <<>>) : p \in {"feeTimeout", "feeError", "gasTimeout", "gasError"}}

\* a receipt: success status (the transaction landed) with some logs, or failure status
ReceiptEnvs(wait, fetch) ==
    {Env("ok", wait, fetch, TRUE, 1, sh) : sh \in LogShapes}
        \cup {Env("ok", wait, fetch, FALSE, 0, <<>>)}

\* every answer the environment can give to one attempt
AttemptEnvs ==
    PreFailEnvs
        \cup ReceiptEnvs("receipt", "-")
        \cup {Env("ok", "null", "-", FALSE, 0, <<>>)}
        \cup {Env("ok", "error", "-", FALSE, 0, <<>>)}
        \cup {Env("ok", "timeout", f, l, 0, <<>>) : f \in {"null", "throw"}, l \in BOOLEAN}
        \cup ReceiptEnvs("timeout", "receipt")

\* getFeeData or estimateGas throws; the transaction is mined with success
\* status, or with failure status; the wait times out, the transaction landing
\* all the same or being dropped
CancelEnvs == {"feeError", "gasError", "mined", "reverted", "waitLostLanded", "waitLostDropped"}

CREATED == "LoanableItemCreated"

LogOf(kind, id) ==
    CASE kind = "created" -> [name |-> CREATED, arg |-> id]
      [] kind = "created2" -> [name |-> CREATED, arg |-> id + 1]
      [] OTHER -> [name |-> "Transfer", arg |-> 0]

ReceiptOf(e, id) ==
    [status |-> e.status, logs |-> [i \in 1..Len(e.shape) |-> LogOf(e.shape[i], id)]]

NoReceipt == [status |-> NoValue, logs |-> <<>>]

-----------------------------------------------------------------------------
(* createVoxiesRental *)

\* the receipt loop: loanId of the first LoanableItemCreated event, else undefined
RECURSIVE ParseFrom(_, _)
ParseFrom(logs, i) ==
    IF i > Len(logs) THEN NoValue
    ELSE IF logs[i].name = CREATED THEN logs[i].arg
    ELSE ParseFrom(logs, i + 1)

RECURSIVE ParseLast(_, _)
ParseLast(logs, i) ==
    IF i < 1 THEN NoValue
    ELSE IF logs[i].name = CREATED THEN logs[i].arg
    ELSE ParseLast(logs, i - 1)

ParseLoanIdLast(logs) == ParseLast(logs, Len(logs))

ParseLoanId(logs) == ParseFrom(logs, 1)

\* if (!receipt || receipt.status !== 1) continue
ReceiptRejected(receipt) == receipt = NoReceipt \/ receipt.status # 1

\* the state of one call: ledger, token counter, the locals uuid and txHash,
\* and what the call has done so far
CallState(L, u) ==
    [loans |-> L, uctr |-> u, uuid |-> NoValue, txHash |-> NoValue,
     attempts |-> 0, subs |-> <<>>, fetches |-> 0]

CreateResult(S, loanId, receipt, exit) ==
    [loanId |-> loanId, uuid |-> S.uuid, txHash |-> S.txHash, attempts |-> S.attempts,
     subs |-> S.subs, fetches |-> S.fetches, loans |-> S.loans, uctr |-> S.uctr,
     receipt |-> receipt, exit |-> exit, threw |-> FALSE]

LoopEndsEarly(attempt) == attempt >= MAX_RETRY_ATTEMPTS

\* for (let attempt = 1; attempt <= CONFIG.MAX_RETRY_ATTEMPTS; attempt++)
LoopEnds(attempt) == attempt > MAX_RETRY_ATTEMPTS

\* call == [c, t, price, own, t0]: the asset, the fee, and the ledger facts the
\* transaction is judged by.  The body of the try block of one attempt:
\* kind "return" (a return statement), "next" (continue, or falling off the end
\* of the block) or "throw" (an exception leaves the block).
Step(kind, S, loanId, receipt, exit) ==
    [kind |-> kind, S |-> S, loanId |-> loanId, receipt |-> receipt, exit |-> exit]

\* the receipt is in hand: status check, logs check, event scan
ProcessReceipt(S, receipt, loanId) ==
    IF ReceiptRejected(receipt) THEN Step("next", S, NoValue, receipt, "rejected")
    ELSE IF Len(receipt.logs) = 0 THEN Step("next", S, NoValue, receipt, "noLogs")
    ELSE IF loanId # NoValue THEN Step("return", S, loanId, receipt, "parsed")
    ELSE Step("next", S, NoValue, receipt, "noEvent")

AwaitReceiptDropsFetched(attempt, e, S, receipt) ==
    CASE e.wait = "error" -> Step("throw", S, NoValue, NoReceipt, "waitError")
      [] e.wait = "timeout" /\ e.fetch = "throw" ->
            Step("throw", S, NoValue, NoReceipt, "fetchError")
      [] e.wait = "timeout" ->
            IF attempt < MAX_RETRY_ATTEMPTS
            THEN Step("next", S, NoValue, NoReceipt, "noReceipt")
            ELSE Step("return", S, NoValue, NoReceipt, "noReceipt")
      [] OTHER -> ProcessReceipt(S, receipt, ParseLoanId(receipt.logs))

\* tx.wait, and the manual getTransactionReceipt after a timeout of the wait
AwaitReceipt(attempt, e, S, receipt) ==
    CASE e.wait = "error" -> Step("throw", S, NoValue, NoReceipt, "waitError")
      [] e.wait = "timeout" /\ e.fetch = "throw" ->
            Step("throw", S, NoValue, NoReceipt, "fetchError")
      [] e.wait = "timeout" /\ e.fetch = "null" ->
            IF attempt < MAX_RETRY_ATTEMPTS
            THEN Step("next", S, NoValue, NoReceipt, "noReceipt")
            ELSE Step("return", S, NoValue, NoReceipt, "noReceipt")
      [] OTHER -> ProcessReceipt(S, receipt, ParseLoanId(receipt.logs))

\* the transaction is sent: the ledger applies it or not, as the environment says
Submitted(attempt, e, call, S, id) ==
    AwaitReceipt(attempt, e,
        [S EXCEPT
           !.loans = IF e.landed
                     THEN Append(@, NewLoan(call.c, call.t, call.price, S.uuid, call.t0))
                     ELSE @,
           !.subs = Append(@, [uuid |-> S.uuid, landed |-> e.landed, id |-> id,
                               attempt |-> attempt]),
           !.txHash = Len(S.subs) + 1,
           !.fetches = IF e.wait = "timeout" THEN @ + 1 ELSE @],
        IF e.wait = "receipt" \/ (e.wait = "timeout" /\ e.fetch = "receipt")
        THEN ReceiptOf(e, id) ELSE NoReceipt)

\* uuid drawn: estimateGas, then the submission
Estimate(attempt, e, call, S) ==
    IF e.pre # "ok"
    THEN Step("throw", S, NoValue, NoReceipt, e.pre)
    ELSE IF ~CanCreate(S.loans, call.own, call.c, call.t)
    THEN Step("throw", S, NoValue, NoReceipt, "gasError")
    ELSE Submitted(attempt, e, call, S, Len(S.loans))

\* the correlation token drawn once for the call and sent again by every retry
AttemptBodyOneUuid(attempt, e, call, S) ==
    IF e.pre \in {"feeTimeout", "feeError"}
    THEN Step("throw", [S EXCEPT !.attempts = attempt], NoValue, NoReceipt, e.pre)
    ELSE Estimate(attempt, e, call,
                  [S EXCEPT !.attempts = attempt, !.uuid = S.uctr + 1])

AttemptBody(attempt, e, call, S) ==
    IF e.pre \in {"feeTimeout", "feeError"}
    THEN Step("throw", [S EXCEPT !.attempts = attempt], NoValue, NoReceipt, e.pre)
    ELSE Estimate(attempt, e, call,
                  [S EXCEPT !.attempts = attempt, !.uctr = @ + 1, !.uuid = S.uctr + 1])

CatchOnlyTimeouts(step) ==
    IF step.kind = "throw" /\ step.exit \in {"feeTimeout", "gasTimeout"}
    THEN [step EXCEPT !.kind = "next"] ELSE step

\* catch (error: any) { ... }: logs, waits, and goes on with the loop
CatchCreate(step) ==
    IF step.kind = "throw" THEN [step EXCEPT !.kind = "next"] ELSE step

RECURSIVE CreateAttempts(_, _, _, _)

AfterAttempt(attempt, envs, call, step) ==
    CASE step.kind = "return" -> CreateResult(step.S, step.loanId, step.receipt, step.exit)
      [] step.kind = "throw" ->
            [CreateResult(step.S, NoValue, NoReceipt, step.exit) EXCEPT !.threw = TRUE]
      [] OTHER -> CreateAttempts(attempt + 1, envs, call, step.S)

CreateAttempts(attempt, envs, call, S) ==
    IF LoopEnds(attempt)
    THEN CreateResult(S, NoValue, NoReceipt, "exhausted")
    ELSE AfterAttempt(attempt, envs, call,
                      CatchCreate(AttemptBody(attempt, envs[attempt], call, S)))

createVoxiesRental(envs, call, L, u) == CreateAttempts(1, envs, call, CallState(L, u))

-----------------------------------------------------------------------------
(* cancelRental *)

CancelLoan(L, id) == [L EXCEPT ![id + 1].canceled = TRUE]

CancelOutcome(ok, submits, landed, status, L, id) ==
    [kind |-> IF ok THEN "return" ELSE "throw",
     ok |-> ok,
     attempts |-> 1,
     submits |-> submits,
     fetches |-> 0,
     status |-> status,
     landed |-> landed,
     loans |-> IF landed THEN CancelLoan(L, id) ELSE L,
     threw |-> FALSE]

\* the status of the receipt the wait ends with, if it ends with one
CancelStatus(env) ==
    CASE env = "mined" -> 1
      [] env = "reverted" -> 0
      [] OTHER -> NoValue

\* the body of the try block: returns true when tx.wait returns, throws otherwise
CancelBody(env, id, L) ==
    IF env \in {"feeError", "gasError"} \/ ~CanCancel(L, id)
    THEN CancelOutcome(FALSE, 0, FALSE, NoValue, L, id)
    ELSE CancelOutcome(env = "mined", 1, env \in {"mined", "waitLostLanded"},
                       CancelStatus(env), L, id)

\* catch (error) { Logger.error(...); return false; }
CatchCancel(body) ==
    IF body.kind = "throw" THEN [body EXCEPT !.kind = "return", !.ok = FALSE] ELSE body

cancelRental(env, id, L) == CatchCancel(CancelBody(env, id, L))

\* cancelRental of the aggregation-API variant (src/src/index.ts): the wait is
\* provider.waitForTransaction, which hands back the receipt whatever its status
CancelBodyApi(env, id, L) ==
    IF env \in {"feeError", "gasError"} \/ ~CanCancel(L, id)
    THEN CancelOutcome(FALSE, 0, FALSE, NoValue, L, id)
    ELSE CancelOutcome(env \in {"mined", "reverted"}, 1, env \in {"mined", "waitLostLanded"},
                       CancelStatus(env), L, id)

cancelRentalApi(env, id, L) == CatchCancel(CancelBodyApi(env, id, L))

-----------------------------------------------------------------------------
(* Tracking store *)

Rec(price, addr, loanId, uuid, ts) ==
    [price |-> price, nftAddress |-> addr, loanId |-> loanId, bundleUUID |-> uuid,
     timestamp |-> ts]

NoRec == Rec(0, UNKNOWN, NoValue, NoValue, NoValue)

\* a value of rental_prices.json: a bare number, an object with a price, anything else
FileNumber(p) == [shape |-> "number", rec |-> Rec(p, UNKNOWN, NoValue, NoValue, NoValue)]
FileObject(r) == [shape |-> "object", rec |-> r]
FileJunk == [shape |-> "junk", rec |-> NoRec]

loadRentalPrices(f, ok) ==
    IF ~ok THEN << >>
    ELSE [t \in {k \in DOMAIN f : f[k].shape \in {"number", "object"}} |-> f[t].rec]

saveRentalPrices(m) == [t \in DOMAIN m |-> FileObject(m[t])]

Put(m, t, r) == [k \in DOMAIN m \cup {t} |-> IF k = t THEN r ELSE m[k]]

\* keys of a set of integers in ascending order, the order Map.entries() gives them
RECURSIVE Ascending(_)
Ascending(S) ==
    IF S = {} THEN <<>>
    ELSE LET lo == CHOOSE x \in S : \A y \in S : x <= y
         IN  <<lo>> \o Ascending(S \ {lo})

RECURSIVE Descending(_)
Descending(S) ==
    IF S = {} THEN <<>>
    ELSE LET hi == CHOOSE x \in S : \A y \in S : x >= y
         IN  <<hi>> \o Descending(S \ {hi})

-----------------------------------------------------------------------------
(* What a pass did *)

Ev(op, phase, t, c, id, price, res) ==
    [op |-> op, phase |-> phase, t |-> t, c |-> c, id |-> id, price |-> price,
     res |-> res, before |-> NoRec, after |-> NoRec, again |-> FALSE]

EvalEv(phase, t, c, path, before, after) ==
    [op |-> "eval", phase |-> phase, t |-> t, c |-> c, id |-> NoValue, price |-> NoValue,
     res |-> path, before |-> before, after |-> after, again |-> FALSE]

\* the outcome of visiting one record or one enumerated token
Outcome(m, L, u, evs, threw) ==
    [mem |-> m, loans |-> L, uctr |-> u, evs |-> evs, threw |-> threw]

\* the failed reads and failed transactions among some events; the polls of one
\* wait that fail one after the other are one failure
RECURSIVE FaultsOf(_)
FaultsOf(evs) ==
    IF evs = <<>> THEN 0
    ELSE FaultsOf(Tail(evs)) +
         (IF Head(evs).res \in {"throw", "fail", "indexError"} /\ ~Head(evs).again
          THEN 1 ELSE 0)

-----------------------------------------------------------------------------
(* The answers of the ledger one pass is run against *)

EnvOk == Env("ok", "receipt", "-", TRUE, 1, <<"foreign", "created">>)
EnvGasError == Env("gasError", "-", "-", FALSE, 0, <<>>)
EnvLostLanded == Env("ok", "timeout", "null", TRUE, 0, <<>>)

\* a call that lists at once, one whose attempts all fail, one whose first
\* transaction lands after its receipt was given up
PassCreateEnvs ==
    {<<EnvOk, EnvOk, EnvOk>>,
     <<EnvGasError, EnvGasError, EnvGasError>>,
     <<EnvLostLanded, EnvGasError, EnvGasError>>}

PassCancelEnvs == {"mined", "reverted", "waitLostLanded"}


ReadAnswers == {"ok", "throw"}

PollAnswers == [1..MaxPolls -> ReadAnswers]

-----------------------------------------------------------------------------
(* waitForNftToBeUnbundled *)

RECURSIVE PollFrom(_, _, _, _, _, _)
PollFrom(i, answers, c, t, L, evs) ==
    IF i > MaxPolls THEN [ok |-> FALSE, evs |-> evs]
    ELSE IF answers[i] = "throw"
    THEN PollFrom(i + 1, answers, c, t, L,
                  Append(evs, [Ev("isBundled", "tracked", t, c, NoValue, NoValue, "throw")
                                 EXCEPT !.again = i > 1]))
    ELSE IF ~Bundled(L, c, t)
    THEN [ok |-> TRUE,
          evs |-> Append(evs, Ev("isBundled", "tracked", t, c, NoValue, NoValue, "false"))]
    ELSE PollFrom(i + 1, answers, c, t, L,
                  Append(evs, Ev("isBundled", "tracked", t, c, NoValue, NoValue, "true")))

waitForNftToBeUnbundled(answers, c, t, L) == PollFrom(1, answers, c, t, L, <<>>)

-----------------------------------------------------------------------------
(* manageTrackedRentals: the body of the loop for one record *)

KeepLoanId(r) == r

\* delete rentalInfo.loanId
DropLoanId(r) == [r EXCEPT !.loanId = NoValue]

UnbundleAssumed(poll) == TRUE

\* if (isUnbundled)
UnbundleConfirmed(poll) == poll.ok

\* if (newLoanData): createVoxiesRental returns an object on every path
ListingReturned(res) == TRUE

\* if (newLoanData?.loanId)
RelistSucceeded(res) == ~Falsy(res.loanId)

CreateEv(phase, t, c, price, res) ==
    Ev("create", phase, t, c, res.loanId, price,
       IF res.loanId # NoValue THEN "ok" ELSE "fail")

CallOf(c, t, price, own, t0) == [c |-> c, t |-> t, price |-> price, own |-> own, t0 |-> t0]

BundledEv(phase, t, c, res) == Ev("isBundled", phase, t, c, NoValue, NoValue, res)

BundledAnswer(isAlreadyBundled) == IF isAlreadyBundled THEN "true" ELSE "false"

SkipBundledNever(isAlreadyBundled) == FALSE

\* if (isAlreadyBundled) ... continue
SkipBundled(isAlreadyBundled) == isAlreadyBundled

\* what ownerOf gives: the holder, or a throw ("none": the collection has no such
\* token, "throw": the query failed)
OwnerAnswer(own, c, t, ans) ==
    IF own[c][t] = NONE THEN "none" ELSE IF ans = "throw" THEN "throw" ELSE own[c][t]

Throws(a) == a \in {"none", "throw"}

ProbeEv(t, c, a) == Ev("ownerOf", "tracked", t, c, NoValue, NoValue, a)

NoLoanStored(t, c, probes, m, res, r2) ==
    Outcome(Put(m, t, r2), res.loans, res.uctr,
            probes \o
            <<CreateEv("tracked", t, c, m[t].price, res),
              EvalEv("tracked", t, c, "list", m[t], r2)>>, FALSE)

\* the listing recorded without the time it was made
NoLoanListedUntimed(t, c, probes, m, t0, res) ==
    NoLoanStored(t, c, probes, m, res,
        [m[t] EXCEPT !.nftAddress = c, !.loanId = res.loanId, !.bundleUUID = res.uuid])

\* createVoxiesRental has returned res
NoLoanListed(t, c, probes, m, t0, res) ==
    NoLoanStored(t, c, probes, m, res,
        IF ListingReturned(res)
        THEN [m[t] EXCEPT !.nftAddress = c, !.loanId = res.loanId,
                          !.bundleUUID = res.uuid, !.timestamp = t0]
        ELSE [m[t] EXCEPT !.nftAddress = c])

\* ownerOf answered holder for collection c
NoLoanOwned(t, c, holder, probes, b, envs, m, L, u, own, t0) ==
    IF holder # ME
    THEN Outcome(m, L, u, probes \o <<EvalEv("tracked", t, c, "notOwned", m[t], m[t])>>,
                 FALSE)
    ELSE IF b = "throw"
    THEN Outcome(m, L, u, probes \o <<BundledEv("tracked", t, c, "throw")>>, TRUE)
    ELSE IF SkipBundled(Bundled(L, c, t))
    THEN Outcome(m, L, u,
                 probes \o <<BundledEv("tracked", t, c, "true"),
                             EvalEv("tracked", t, c, "bundled", m[t], m[t])>>, FALSE)
    ELSE NoLoanListed(t, c,
                      probes \o <<BundledEv("tracked", t, c, BundledAnswer(Bundled(L, c, t)))>>,
                      m, t0,
                      createVoxiesRental(envs, CallOf(c, t, m[t].price, own, t0), L, u))

NoLoanProbed(t, a1, a2, b, envs, m, L, u, own, t0) ==
    IF Throws(a1) /\ Throws(a2)
    THEN Outcome(m, L, u,
                 <<ProbeEv(t, NFT, a1), ProbeEv(t, VOXIE, a2),
                   EvalEv("tracked", t, UNKNOWN, "notFound", m[t], m[t])>>, FALSE)
    ELSE IF ~Throws(a1)
    THEN NoLoanOwned(t, NFT, a1, <<ProbeEv(t, NFT, a1)>>, b, envs, m, L, u, own, t0)
    ELSE NoLoanOwned(t, VOXIE, a2, <<ProbeEv(t, NFT, a1), ProbeEv(t, VOXIE, a2)>>,
                     b, envs, m, L, u, own, t0)

\* CASE 1: the record has no loanId.  o1, o2: the answers to the two ownerOf
\* queries, b: the answer to isBundled, envs: the answers to createVoxiesRental.
TrackedNoLoan(t, o1, o2, b, envs, m, L, u, own, t0) ==
    NoLoanProbed(t, OwnerAnswer(own, NFT, t, o1), OwnerAnswer(own, VOXIE, t, o2),
                 b, envs, m, L, u, own, t0)

CancelEv(t, r, ok) ==
    Ev("cancel", "tracked", t, r.nftAddress, r.loanId, NoValue, IF ok THEN "ok" ELSE "fail")

RelistStored(t, path, newPrice, m, evs, res, r1) ==
    Outcome(Put(m, t, r1), res.loans, res.uctr,
            evs \o <<CreateEv("tracked", t, m[t].nftAddress, newPrice, res),
                     EvalEv("tracked", t, m[t].nftAddress, path, m[t], r1)>>, FALSE)

\* createVoxiesRental has returned res
Relisted(t, path, newPrice, m, t0, evs, res) ==
    RelistStored(t, path, newPrice, m, evs, res,
        IF RelistSucceeded(res)
        THEN [m[t] EXCEPT !.price = newPrice, !.loanId = res.loanId,
                          !.bundleUUID = res.uuid, !.timestamp = t0]
        ELSE DropLoanId(m[t]))

\* waitForNftToBeUnbundled has returned poll
Polled(t, path, newPrice, envs, m, u, own, t0, L, poll) ==
    IF ~UnbundleConfirmed(poll)
    THEN Outcome(Put(m, t, DropLoanId(m[t])), L, u,
                 <<CancelEv(t, m[t], TRUE)>> \o poll.evs \o
                 <<EvalEv("tracked", t, m[t].nftAddress, path, m[t], DropLoanId(m[t]))>>,
                 FALSE)
    ELSE Relisted(t, path, newPrice, m, t0, <<CancelEv(t, m[t], TRUE)>> \o poll.evs,
                  createVoxiesRental(envs, CallOf(m[t].nftAddress, t, newPrice, own, t0),
                                     L, u))

\* cancelRental has returned can
Canceled(t, path, newPrice, answers, envs, m, u, own, t0, can) ==
    IF ~can.ok
    THEN Outcome(m, can.loans, u,
                 <<CancelEv(t, m[t], FALSE),
                   EvalEv("tracked", t, m[t].nftAddress, path, m[t], m[t])>>, FALSE)
    ELSE Polled(t, path, newPrice, envs, m, u, own, t0, can.loans,
                waitForNftToBeUnbundled(answers, m[t].nftAddress, t, can.loans))

\* cancel, wait for the unbundling, relist at newPrice: the Expired and the Stale
\* branch alike
Relist(t, path, newPrice, cenv, answers, envs, m, L, u, own, t0) ==
    Canceled(t, path, newPrice, answers, envs, m, u, own, t0,
             cancelRental(cenv, m[t].loanId, L))

SnapEv(t, r, res) == Ev("snapshot", "tracked", t, r.nftAddress, r.loanId, NoValue, res)

AfterSnapshot(t, r, o) == [o EXCEPT !.evs = <<SnapEv(t, r, "ok")>> \o @]

\* delete rentalInfo.loanId; continue
Dropped(t, m, L, u, snap, path) ==
    Outcome(Put(m, t, DropLoanId(m[t])), L, u,
            <<SnapEv(t, m[t], snap),
              EvalEv("tracked", t, m[t].nftAddress, path, m[t], DropLoanId(m[t]))>>, FALSE)

\* loanSnapshot.loanee !== ethers.ZeroAddress
IsRented(loan) == loan.loanee # ZERO

DecreaseAllowedOnResult(price) == DecreasePrice(price) > MIN_PRICE_FOR_DECREASE

DecreaseAllowedAtFloor(price) == price >= MIN_PRICE_FOR_DECREASE

\* rentalInfo.price > CONFIG.MIN_PRICE_FOR_DECREASE
DecreaseAllowed(price) == price > MIN_PRICE_FOR_DECREASE

\* newPrice of the Expired branch
ExpiredPrice(r, loan) ==
    IF isLoanRentedQuickly(r.timestamp,
                           IF IsRented(loan) THEN loan.startingTime ELSE NoValue,
                           QUICK_RENTAL_MINUTES)
    THEN IncreasePrice(r.price) ELSE r.price

\* loanItems has answered loan
Classified(t, cenv, answers, envs, m, L, u, own, t0, loan) ==
    IF loan.canceled THEN Dropped(t, m, L, u, "canceled", "canceled")
    ELSE IF loan.owner # ME THEN Dropped(t, m, L, u, "foreign", "foreign")
    ELSE IF isLoanExpired(loan.endTime, t0)
    THEN AfterSnapshot(t, m[t],
            Relist(t, "expired", ExpiredPrice(m[t], loan), cenv, answers, envs,
                   m, L, u, own, t0))
    ELSE IF /\ ~IsRented(loan)
            /\ isLoanListedGreatThanDays(m[t].timestamp, PRICE_DROP_DAYS, t0)
            /\ DecreaseAllowed(m[t].price)
    THEN AfterSnapshot(t, m[t],
            Relist(t, "stale", DecreasePrice(m[t].price), cenv, answers, envs,
                   m, L, u, own, t0))
    ELSE Outcome(m, L, u,
                 <<SnapEv(t, m[t], "ok"),
                   EvalEv("tracked", t, m[t].nftAddress,
                          IF IsRented(loan) THEN "rented" ELSE "quiet", m[t], m[t])>>,
                 FALSE)

\* CASE 2: the record has a loanId.  s: the answer to loanItems.
TrackedLoan(t, s, cenv, answers, envs, m, L, u, own, t0) ==
    IF s = "throw" THEN Dropped(t, m, L, u, "throw", "readError")
    ELSE Classified(t, cenv, answers, envs, m, L, u, own, t0, LoanItems(L, m[t].loanId))

-----------------------------------------------------------------------------
(* discoverAndListUntrackedItems: the body of the inner loop for one index *)

\* existingRentalInfo?.price || CONFIG.DEFAULT_RENTAL_PRICE
DiscoveryPrice(m, t) ==
    IF t \in DOMAIN m /\ m[t].price # 0 THEN m[t].price ELSE DEFAULT_RENTAL_PRICE

isUntrackedOrMistracked(m, t, c) ==
    \/ t \notin DOMAIN m
    \/ Falsy(m[t].loanId)
    \/ m[t].nftAddress # c

Existing(m, t) == IF t \in DOMAIN m THEN m[t] ELSE NoRec

\* createVoxiesRental has returned res
DiscoverListed(t, c, price, m, t0, b, res) ==
    Outcome(IF ListingReturned(res)
            THEN Put(m, t, Rec(price, c, res.loanId, res.uuid, t0)) ELSE m,
            res.loans, res.uctr,
            <<BundledEv("discovery", t, c, b),
              CreateEv("discovery", t, c, price, res),
              EvalEv("discovery", t, c, "list", Existing(m, t),
                     IF ListingReturned(res)
                     THEN Rec(price, c, res.loanId, res.uuid, t0) ELSE Existing(m, t))>>,
            FALSE)

\* ix: the answer to tokenOfOwnerByIndex, b: the answer to isBundled
DiscoverItem(t, c, ix, b, envs, m, L, u, own, t0) ==
    IF ix = "throw"
    THEN Outcome(m, L, u, <<EvalEv("discovery", 0, c, "indexError", NoRec, NoRec)>>, FALSE)
    ELSE IF ~isUntrackedOrMistracked(m, t, c)
    THEN Outcome(m, L, u,
                 <<EvalEv("discovery", t, c, "tracked", Existing(m, t), Existing(m, t))>>,
                 FALSE)
    ELSE IF b = "throw"
    THEN Outcome(m, L, u,
                 <<BundledEv("discovery", t, c, "throw"),
                   EvalEv("discovery", t, c, "readError", Existing(m, t), Existing(m, t))>>,
                 FALSE)
    ELSE IF SkipBundled(Bundled(L, c, t))
    THEN Outcome(m, L, u,
                 <<BundledEv("discovery", t, c, "true"),
                   EvalEv("discovery", t, c, "bundled", Existing(m, t), Existing(m, t))>>,
                 FALSE)
    ELSE DiscoverListed(t, c, DiscoveryPrice(m, t), m, t0,
            BundledAnswer(Bundled(L, c, t)),
            createVoxiesRental(envs, CallOf(c, t, DiscoveryPrice(m, t), own, t0), L, u))

HeldBy(own, c) == {t \in Tokens : own[c][t] = ME}

-----------------------------------------------------------------------------
(* Initial states: a store file and a ledger the process can be started on *)

Holding(nft, vox) == [c \in CollSet |-> IF c = NFT THEN nft ELSE vox]

\* a listing of another wallet on the shared loan contract
ForeignLoan ==
    [owner |-> SOMEONE, loanee |-> ZERO, startingTime |-> 0,
     endTime |-> StartTime + RENTAL_DURATION, canceled |-> FALSE, coll |-> NFT,
     token |-> 0, uuid |-> NoValue, price |-> 1]

ABSENT == [shape |-> "absent", rec |-> NoRec]

Untracked == ABSENT
Legacy == FileNumber(4)
Unlisted == FileObject(Rec(10, NFT, NoValue, NoValue, NoValue))
UnlistedVoxie == FileObject(Rec(5, VOXIE, NoValue, NoValue, NoValue))
StaleLoanId == FileObject(Rec(5, NFT, 0, NoValue, StartTime - DAY))
\* a record whose loanId names no loan of the contract
DanglingLoanId == FileObject(Rec(5, NFT, 1, NoValue, StartTime - DAY))
UnlistedFifty == FileObject(Rec(50, NFT, NoValue, NoValue, NoValue))
\* a record whose price is 0
UnlistedFree == FileObject(Rec(0, NFT, NoValue, NoValue, NoValue))
ListedAtFloor ==
    FileObject(Rec(MIN_PRICE_FOR_DECREASE, NFT, 1, NoValue, StartTime - 4 * DAY))

\* the listing the record ListedAtFloor names: made four days before the start
FloorLoan == NewLoan(NFT, 1, MIN_PRICE_FOR_DECREASE, NoValue, StartTime - 4 * DAY)

Scenario(h, e, L) == [holds |-> h, entry |-> e, loans |-> L]

\* what the first token can start as: who holds it in each collection, its entry
\* in the store file, and the loans the contract already has
FirstScenarios ==
    {Scenario(Holding(ME, NONE), Untracked, <<ForeignLoan>>),
     Scenario(Holding(ME, NONE), Legacy, <<ForeignLoan>>),
     Scenario(Holding(ME, NONE), Unlisted, <<ForeignLoan>>),
     Scenario(Holding(ME, NONE), Unlisted, <<>>),
     Scenario(Holding(ME, NONE), UnlistedVoxie, <<ForeignLoan>>),
     Scenario(Holding(ME, NONE), StaleLoanId, <<ForeignLoan>>),
     Scenario(Holding(ME, NONE), StaleLoanId, <<>>),
     Scenario(Holding(NONE, ME), Legacy, <<ForeignLoan>>),
     Scenario(Holding(SOMEONE, ME), Unlisted, <<ForeignLoan>>),
     Scenario(Holding(ME, ME), Untracked, <<ForeignLoan>>),
     Scenario(Holding(ME, ME), Unlisted, <<ForeignLoan>>),
     Scenario(Holding(SOMEONE, NONE), Unlisted, <<ForeignLoan>>),
     Scenario(Holding(ME, NONE), UnlistedFifty, <<ForeignLoan>>),
     Scenario(Holding(ME, NONE), DanglingLoanId, <<ForeignLoan>>),
     Scenario(Holding(SOMEONE, NONE), FileJunk, <<ForeignLoan>>),
     Scenario(Holding(SOMEONE, ME), UnlistedFree, <<ForeignLoan>>),
     Scenario(Holding(ME, NONE), ListedAtFloor, <<ForeignLoan, FloorLoan>>)}

\* and every further token: held in the first collection, tracked, not listed
OtherHolding == Holding(ME, NONE)
OtherEntry == FileObject(Rec(5, NFT, NoValue, NoValue, NoValue))

OwnerOfScenario(g) ==
    [c \in CollSet |-> [t \in Tokens |-> IF t = 1 THEN g.holds[c] ELSE OtherHolding[c]]]

FileOfScenario(g) ==
    [t \in {k \in Tokens : k > 1 \/ g.entry # ABSENT} |->
        IF t = 1 THEN g.entry ELSE OtherEntry]

NoTx == [op |-> "-"]

\* the scenarios that are also started with a store file that cannot be parsed
UnreadableScenarios ==
    {Scenario(Holding(ME, NONE), Unlisted, <<ForeignLoan>>),
     Scenario(Holding(SOMEONE, NONE), Unlisted, <<ForeignLoan>>)}

PassInit ==
    /\ now = StartTime
    /\ uuidCtr = 0
    /\ mem = << >>
    /\ pc = "idle"
    /\ todo = <<>>
    /\ dcoll = 1
    /\ ditems = <<>>
    /\ passes = 0
    /\ log = <<>>
    /\ prevListed = {}
    /\ quiet = FALSE
    /\ faults = 0
    /\ touched = FALSE

Init ==
    /\ PassInit
    /\ \E g \in FirstScenarios :
        /\ owner = OwnerOfScenario(g)
        /\ file = FileOfScenario(g)
        /\ loans = g.loans
        /\ fileOk \in IF g \in UnreadableScenarios THEN BOOLEAN ELSE {TRUE}
    /\ txIn = NoTx
    /\ txOut = NoTx

-----------------------------------------------------------------------------
(* The process: initial run, then one run per cron tick *)

Delays == {CRON_PERIOD, 4 * DAY, 8 * DAY}

AbortEv == Ev("abort", "-", 0, UNKNOWN, NoValue, NoValue, "throw")

\* the previous run reached its last statement
Completed == log # <<>> /\ log[Len(log)].op = "save"

\* checkHealth() answered true: processRentals starts with loadRentalPrices
StartPass ==
    /\ pc = "idle"
    /\ passes < MaxPasses
    /\ \E d \in Delays :
        /\ passes = 0 => d = CRON_PERIOD
        /\ now' = IF passes = 0 THEN now ELSE now + d
        /\ quiet' = (Completed /\ ~touched /\ d = CRON_PERIOD)
    /\ touched' = FALSE
    /\ passes' = passes + 1
    /\ mem' = loadRentalPrices(file, fileOk)
    /\ todo' = Ascending(DOMAIN mem')
    /\ log' = <<>>
    /\ pc' = "tracked"
    /\ UNCHANGED <<owner, loans, uuidCtr, file, fileOk, dcoll, ditems, prevListed, faults,
                   txIn, txOut>>

\* checkHealth() answered false: the run is skipped
HealthFail ==
    /\ pc = "idle"
    /\ passes < MaxPasses
    /\ faults < MaxFaults
    /\ faults' = faults + 1
    /\ passes' = passes + 1
    /\ touched' = TRUE
    /\ UNCHANGED <<now, owner, loans, uuidCtr, file, fileOk, mem, pc, todo, dcoll, ditems,
                   log, prevListed, quiet, txIn, txOut>>

AbandonSaving(o) ==
    /\ pc' = "idle"
    /\ faults' = faults + FaultsOf(o.evs)
    /\ loans' = o.loans
    /\ uuidCtr' = o.uctr
    /\ log' = log \o o.evs \o <<AbortEv>>
    /\ file' = saveRentalPrices(o.mem)
    /\ mem' = << >>
    /\ todo' = <<>>
    /\ prevListed' = {}
    /\ UNCHANGED <<now, owner, fileOk, dcoll, ditems, passes, quiet, touched, txIn, txOut>>

\* an exception leaves processRentals: nothing is saved
Abandon(o) ==
    /\ pc' = "idle"
    /\ faults' = faults + FaultsOf(o.evs)
    /\ loans' = o.loans
    /\ uuidCtr' = o.uctr
    /\ log' = log \o o.evs \o <<AbortEv>>
    /\ mem' = << >>
    /\ todo' = <<>>
    /\ prevListed' = {}
    /\ UNCHANGED <<now, owner, file, fileOk, dcoll, ditems, passes, quiet, touched,
                   txIn, txOut>>

CommitTracked(o) ==
    /\ faults + FaultsOf(o.evs) <= MaxFaults
    /\ IF o.threw
       THEN Abandon(o)
       ELSE /\ faults' = faults + FaultsOf(o.evs)
            /\ mem' = o.mem
            /\ loans' = o.loans
            /\ uuidCtr' = o.uctr
            /\ log' = log \o o.evs
            /\ todo' = Tail(todo)
            /\ UNCHANGED <<now, owner, file, fileOk, pc, dcoll, ditems, passes, prevListed,
                           quiet, touched, txIn, txOut>>

TrackedNoLoanStep ==
    /\ pc = "tracked"
    /\ todo # <<>>
    /\ Falsy(mem[Head(todo)].loanId)
    /\ \E o1 \in ReadAnswers, o2 \in ReadAnswers, b \in ReadAnswers, envs \in PassCreateEnvs :
        CommitTracked(TrackedNoLoan(Head(todo), o1, o2, b, envs, mem, loans, uuidCtr,
                                    owner, now))

TrackedLoanStep ==
    /\ pc = "tracked"
    /\ todo # <<>>
    /\ ~Falsy(mem[Head(todo)].loanId)
    /\ \E s \in ReadAnswers, cenv \in PassCancelEnvs, answers \in PollAnswers,
          envs \in PassCreateEnvs :
        CommitTracked(TrackedLoan(Head(todo), s, cenv, answers, envs, mem, loans, uuidCtr,
                                  owner, now))

TrackedDone ==
    /\ pc = "tracked"
    /\ todo = <<>>
    /\ pc' = "discEnter"
    /\ dcoll' = 1
    /\ UNCHANGED <<now, owner, loans, uuidCtr, file, fileOk, mem, todo, ditems, passes, log,
                   prevListed, quiet, faults, touched, txIn, txOut>>

\* getNetwork and balanceOf for the next collection; a throw is caught per collection
DiscoverEnter ==
    /\ pc = "discEnter"
    /\ dcoll <= Len(Collections)
    /\ \E a \in ReadAnswers :
        LET held == IF a = "throw" THEN {} ELSE HeldBy(owner, Collections[dcoll])
            ev == Ev("balanceOf", "discovery", 0, Collections[dcoll], NoValue, NoValue, a)
        IN
        /\ faults + FaultsOf(<<ev>>) <= MaxFaults
        /\ faults' = faults + FaultsOf(<<ev>>)
        /\ log' = Append(log, ev)
        /\ IF held = {}
           THEN /\ dcoll' = dcoll + 1
                /\ UNCHANGED <<pc, ditems>>
           ELSE /\ ditems' = Descending(held)
                /\ pc' = "discItems"
                /\ UNCHANGED dcoll
    /\ UNCHANGED <<now, owner, loans, uuidCtr, file, fileOk, mem, todo, passes,
                   prevListed, quiet, touched, txIn, txOut>>

CommitDiscovered(o) ==
    /\ faults + FaultsOf(o.evs) <= MaxFaults
    /\ faults' = faults + FaultsOf(o.evs)
    /\ mem' = o.mem
    /\ loans' = o.loans
    /\ uuidCtr' = o.uctr
    /\ log' = log \o o.evs

DiscoverStep ==
    /\ pc = "discItems"
    /\ ditems # <<>>
    /\ \E ix \in ReadAnswers, b \in ReadAnswers, envs \in PassCreateEnvs :
        CommitDiscovered(DiscoverItem(Head(ditems), Collections[dcoll], ix, b, envs, mem,
                                      loans, uuidCtr, owner, now))
    /\ ditems' = Tail(ditems)
    /\ IF Tail(ditems) = <<>>
       THEN pc' = "discEnter" /\ dcoll' = dcoll + 1
       ELSE UNCHANGED <<pc, dcoll>>
    /\ UNCHANGED <<now, owner, file, fileOk, todo, passes, prevListed, quiet, touched,
                   txIn, txOut>>

ListedBy(events) ==
    {<<events[i].c, events[i].t>> :
        i \in {j \in 1..Len(events) : events[j].op = "create" /\ events[j].res = "ok"}}

\* saveRentalPrices, the last statement of processRentals
Save ==
    /\ pc = "discEnter"
    /\ dcoll > Len(Collections)
    /\ file' = saveRentalPrices(mem)
    /\ fileOk' = TRUE
    /\ pc' = "idle"
    /\ mem' = << >>
    /\ dcoll' = 1
    /\ prevListed' = ListedBy(log)
    /\ log' = Append(log, Ev("save", "-", 0, UNKNOWN, NoValue, NoValue, "ok"))
    /\ UNCHANGED <<now, owner, loans, uuidCtr, todo, ditems, passes, quiet, faults, touched,
                   txIn, txOut>>

-----------------------------------------------------------------------------
(* The rest of the world, between two runs *)

Between == pc = "idle" /\ passes >= 1 /\ passes < MaxPasses /\ ~touched

RentDelays == {3600, 14400}

\* somebody rents a listing of the wallet
Rent ==
    /\ Between
    /\ \E id \in LoanIds(loans), d \in RentDelays :
        LET l == loans[id + 1] IN
        /\ l.owner = ME /\ ~l.canceled /\ l.loanee = ZERO
        /\ loans' = [loans EXCEPT ![id + 1] =
                        [l EXCEPT !.loanee = SOMEONE,
                                  !.startingTime = l.endTime - RENTAL_DURATION + d,
                                  !.endTime = l.endTime + d]]
    /\ touched' = TRUE
    /\ UNCHANGED <<now, owner, uuidCtr, file, fileOk, mem, pc, todo, dcoll, ditems, passes,
                   log, prevListed, quiet, faults, txIn, txOut>>

\* a listing of the wallet is cancelled from outside the process
ExternalCancel ==
    /\ Between
    /\ \E id \in LoanIds(loans) :
        /\ CanCancel(loans, id)
        /\ loans[id + 1].loanee = ZERO
        /\ loans' = CancelLoan(loans, id)
    /\ touched' = TRUE
    /\ UNCHANGED <<now, owner, uuidCtr, file, fileOk, mem, pc, todo, dcoll, ditems, passes,
                   log, prevListed, quiet, faults, txIn, txOut>>

Next ==
    \/ StartPass
    \/ HealthFail
    \/ TrackedNoLoanStep
    \/ TrackedLoanStep
    \/ TrackedDone
    \/ DiscoverEnter
    \/ DiscoverStep
    \/ Save
    \/ Rent
    \/ ExternalCancel

Spec == Init /\ [][Next]_vars

-----------------------------------------------------------------------------
(* The transaction submitter on its own: one call of createVoxiesRental or of *)
(* cancelRental against every sequence of answers of the node                 *)

MyLoan == NewLoan(NFT, 1, DEFAULT_RENTAL_PRICE, NoValue, StartTime)

\* the ledgers a call is made on: no loans at all, loans of another wallet
\* only, the asset already locked in a listing of the wallet
TxLedgers == {<<>>, <<ForeignLoan>>, <<ForeignLoan, MyLoan>>}

TxOwner == OwnerOfScenario(Scenario(Holding(ME, NONE), Untracked, <<>>))

TxCancelLedger == <<ForeignLoan, MyLoan, [MyLoan EXCEPT !.canceled = TRUE]>>

\* the call: the first token of the first collection at the default price
TxCall == CallOf(NFT, 1, DEFAULT_RENTAL_PRICE, owner, now)

TxInit ==
    /\ PassInit
    /\ fileOk = TRUE
    /\ owner = TxOwner
    /\ file = << >>
    /\ loans = <<>>
    /\ txIn = NoTx
    /\ txOut = NoTx

TxCallCreate ==
    /\ txIn.op = "-"
    /\ \E envs \in [1..MAX_RETRY_ATTEMPTS -> AttemptEnvs], L \in TxLedgers :
        /\ txIn' = [op |-> "create", envs |-> envs, loans |-> L]
        /\ txOut' = [op |-> "create",
                     res |-> createVoxiesRental(envs, TxCall, L, uuidCtr)]
    /\ UNCHANGED passVars

TxCallCancel ==
    /\ txIn.op = "-"
    /\ \E env \in CancelEnvs, id \in 0..Len(TxCancelLedger) :
        /\ txIn' = [op |-> "cancel", env |-> env, id |-> id, loans |-> TxCancelLedger]
        /\ txOut' = [op |-> "cancel", res |-> cancelRental(env, id, TxCancelLedger)]
    /\ UNCHANGED passVars

TxCallCancelApi ==
    /\ txIn.op = "-"
    /\ \E env \in CancelEnvs, id \in 0..Len(TxCancelLedger) :
        /\ txIn' = [op |-> "cancelApi", env |-> env, id |-> id, loans |-> TxCancelLedger]
        /\ txOut' = [op |-> "cancelApi", res |-> cancelRentalApi(env, id, TxCancelLedger)]
    /\ UNCHANGED passVars

TxNext == TxCallCreate \/ TxCallCancel \/ TxCallCancelApi

SpecTx == TxInit /\ [][TxNext]_vars

-----------------------------------------------------------------------------
(* The price of one record over the passes that relist it *)

PriceStep(how, old, new) ==
    /\ txOut' = [op |-> "price", how |-> how, prev |-> old, price |-> new]
    /\ UNCHANGED <<txIn, passVars>>

PriceInit ==
    /\ PassInit
    /\ fileOk = TRUE
    /\ owner = TxOwner
    /\ file = << >>
    /\ loans = <<>>
    /\ \E p \in 0..MaxPrice :
        /\ txIn = [op |-> "price", start |-> p]
        /\ txOut = [op |-> "price", how |-> "start", prev |-> p, price |-> p]

\* the Expired branch relists a loan that was rented quickly
QuickRentalIncrease ==
    /\ IncreasePrice(txOut.price) <= MaxPrice
    /\ PriceStep("increase", txOut.price, IncreasePrice(txOut.price))

\* the Expired branch relists a loan that was not
ExpiredSamePrice ==
    /\ txOut.how # "same"
    /\ PriceStep("same", txOut.price, txOut.price)

\* the Stale branch relists
StalenessDecrease ==
    /\ DecreaseAllowed(txOut.price)
    /\ PriceStep("decrease", txOut.price, DecreasePrice(txOut.price))

PriceNext == QuickRentalIncrease \/ ExpiredSamePrice \/ StalenessDecrease

SpecPrice == PriceInit /\ [][PriceNext]_vars

-----------------------------------------------------------------------------
(* When runs start: the initial run and the cron callback, as the last version *)
(* (part_000) and as src/src/index.ts have them.  A run is "health" (waiting  *)
(* for checkHealth), "skipped", "tracked" (store loaded, first phase under    *)
(* way), "discovery" (second phase) or "done" (store saved).                  *)

Mains == {"part_000", "index.ts"}

NetStates == {"up", "down"}

Run(kind, net, at) == [kind |-> kind, net |-> net, at |-> at, acted |-> FALSE]

\* checkHealth(): getNetwork and getAddress answer, or one of them throws
checkHealth(net) == net = "up"

\* the first statement of processRentals is loadRentalPrices
processRentals == "tracked"

\* part_000: if (await checkHealth()) await processRentals(), then cron.schedule;
\* index.ts: cron.schedule at the top of the file, processRentals() at its end
InitialRun(main, net) ==
    IF main = "part_000" THEN Run("initial", net, "health")
    ELSE Run("initial", net, processRentals)

\* cron.schedule has been called and the file has been run to its end
Scheduled(main, runs) ==
    /\ runs # <<>>
    /\ main = "index.ts" \/ runs[1].at \in {"skipped", "done"}

SchedStep(runs) ==
    /\ txOut' = [op |-> "main", runs |-> runs]
    /\ UNCHANGED <<txIn, passVars>>

SchedInit ==
    /\ PassInit
    /\ fileOk = TRUE
    /\ owner = TxOwner
    /\ file = << >>
    /\ loans = <<>>
    /\ \E main \in Mains :
        /\ txIn = [op |-> "main", main |-> main]
        /\ txOut = [op |-> "main", runs |-> <<>>]

\* node runs the file
ProcessStarts ==
    /\ txOut.runs = <<>>
    /\ \E net \in NetStates : SchedStep(<<InitialRun(txIn.main, net)>>)

\* the cron callback fires, whatever the earlier runs are doing
CronTick ==
    /\ Scheduled(txIn.main, txOut.runs)
    /\ Len(txOut.runs) < MaxRuns
    /\ \E net \in NetStates :
        SchedStep(Append(txOut.runs, Run("scheduled", net, "health")))

HealthAnswered ==
    \E k \in DOMAIN txOut.runs :
        /\ txOut.runs[k].at = "health"
        /\ SchedStep([txOut.runs EXCEPT
                ![k].at = IF checkHealth(txOut.runs[k].net) THEN processRentals
                          ELSE "skipped"])

\* a run submits a transaction
RunSubmits ==
    \E k \in DOMAIN txOut.runs :
        /\ txOut.runs[k].at \in {"tracked", "discovery"}
        /\ ~txOut.runs[k].acted
        /\ SchedStep([txOut.runs EXCEPT ![k].acted = TRUE])

\* a run ends its first phase, or ends its second phase and saves the store
RunAdvances ==
    \E k \in DOMAIN txOut.runs :
        /\ txOut.runs[k].at \in {"tracked", "discovery"}
        /\ SchedStep([txOut.runs EXCEPT
                ![k].at = IF @ = "tracked" THEN "discovery" ELSE "done"])

SchedNext == ProcessStarts \/ CronTick \/ HealthAnswered \/ RunSubmits \/ RunAdvances

SpecSched == SchedInit /\ [][SchedNext]_vars

-----------------------------------------------------------------------------
(* The suspension points of one pass over expired loans: where the pass waits,
   and what ends each wait *)

\* what becomes of a transaction the pass has sent: mined with success status,
\* mined with failure status, the wait rejecting with an error of the node, or
\* never mined at all
TxFates == {"mined", "reverted", "waitError", "pending"}

\* getFeeData, estimateGas or the send itself throws: nothing was sent
NotSent == "notSent"

WaitAt(item, at, attempt, polls, fate, ended) ==
    [op |-> "pass", item |-> item, at |-> at, attempt |-> attempt, polls |-> polls,
     fate |-> fate, ended |-> ended]

WaitStep(w) ==
    /\ txOut' = w
    /\ UNCHANGED <<txIn, passVars>>

\* the evaluation of one record is over: the loop goes on to the next record,
\* and after the last one to saveRentalPrices
ItemEnds(w, how) ==
    WaitAt(w.item + 1, IF w.item = MaxToken THEN "save" ELSE "cancel", 1, 0, "-",
           Append(w.ended, how))

\* await tx.wait(CONFIG.CONFIRMATION_BLOCKS): no timeout is passed, the call
\* returns or throws once the node reports on the transaction
ConfirmationWaitOver(fate) == fate # "pending"

WaitInit ==
    /\ PassInit
    /\ fileOk = TRUE
    /\ owner = TxOwner
    /\ file = << >>
    /\ loans = <<>>
    /\ txIn = [op |-> "pass"]
    /\ txOut = WaitAt(1, "cancel", 1, 0, "-", <<>>)

\* cancelRental up to the wait
CancelSent ==
    /\ txOut.at = "cancel"
    /\ \E fate \in TxFates \cup {NotSent} :
        WaitStep(IF fate = NotSent
                 THEN ItemEnds(txOut, "cancelFailed")
                 ELSE [txOut EXCEPT !.at = "cancelWait", !.fate = fate])

\* cancelRental from the wait on
CancelWaitEnds ==
    /\ txOut.at = "cancelWait"
    /\ ConfirmationWaitOver(txOut.fate)
    /\ WaitStep(IF txOut.fate = "mined"
                THEN [txOut EXCEPT !.at = "poll", !.fate = "-"]
                ELSE ItemEnds(txOut, "cancelFailed"))

\* one turn of the loop of waitForNftToBeUnbundled; the time limit of the loop
\* is spent after MaxPolls turns
UnbundlePolled ==
    /\ txOut.at = "poll"
    /\ \E a \in {"false", "true", "throw"} :
        WaitStep(IF a = "false" THEN [txOut EXCEPT !.at = "relistDelay"]
                 ELSE IF txOut.polls + 1 >= MaxPolls THEN ItemEnds(txOut, "pollTimeout")
                 ELSE [txOut EXCEPT !.at = "pollDelay", !.polls = @ + 1])

\* a setTimeout of the pass fires
DelayEnds ==
    /\ txOut.at \in {"pollDelay", "relistDelay", "retryDelay"}
    /\ WaitStep(CASE txOut.at = "pollDelay" -> [txOut EXCEPT !.at = "poll"]
                  [] txOut.at = "relistDelay" -> [txOut EXCEPT !.at = "create"]
                  [] OTHER -> [txOut EXCEPT !.at = "create", !.attempt = @ + 1])

\* an attempt of createVoxiesRental did not give a loanId
AttemptFailed(w) ==
    IF LoopEnds(w.attempt + 1) THEN ItemEnds(w, "createFailed")
    ELSE [w EXCEPT !.at = "retryDelay", !.fate = "-"]

\* one attempt of createVoxiesRental up to the wait
CreateSent ==
    /\ txOut.at = "create"
    /\ \E fate \in TxFates \cup {NotSent} :
        WaitStep(IF fate = NotSent THEN AttemptFailed(txOut)
                 ELSE [txOut EXCEPT !.at = "createWait", !.fate = fate])

\* the attempt from the wait on
CreateWaitEnds ==
    /\ txOut.at = "createWait"
    /\ ConfirmationWaitOver(txOut.fate)
    /\ WaitStep(IF txOut.fate = "mined" THEN ItemEnds(txOut, "listed")
                ELSE AttemptFailed(txOut))

\* saveRentalPrices: the pass is over
PassSaved ==
    /\ txOut.at = "save"
    /\ WaitStep([txOut EXCEPT !.at = "done"])

WaitNext ==
    CancelSent \/ CancelWaitEnds \/ UnbundlePolled \/ DelayEnds \/ CreateSent
        \/ CreateWaitEnds \/ PassSaved

SpecWait == WaitInit /\ [][WaitNext]_vars

\* the event loop runs every continuation that is ready and fires every timer
SpecWaitFair == SpecWait /\ WF_vars(WaitNext)

-----------------------------------------------------------------------------
(* checkVoxiesRentals of the variants that read the wallet's loans from the
   aggregation API: src/src/index.ts, part_002 and the earliest one, part_001 *)

ApiMains == {"index.ts", "part_002", "part_001"}

ApiLoan(id, voxel, endTime, timestamp, startingTime, isActive, isLoaned) ==
    [id |-> id, voxel |-> voxel, endTime |-> endTime, timestamp |-> timestamp,
     startingTime |-> startingTime, isActive |-> isActive, isLoaned |-> isLoaned]

\* the loans the API can report: id 1 is a loan the wallet can cancel, id 2 one
\* already canceled on the contract; rented out and over (taken within minutes
\* or after a day), listed for four days and unrented, just listed, rented now
ApiLoans ==
    {ApiLoan(id, v, StartTime - DAY, StartTime - 9 * DAY, StartTime - 9 * DAY + d, FALSE, TRUE) :
        id \in {1, 2}, v \in {3, 5}, d \in {60, DAY}}
      \cup {ApiLoan(id, v, NoValue, StartTime - 4 * DAY, NoValue, TRUE, FALSE) :
              id \in {1, 2}, v \in {3, 5}}
      \cup {ApiLoan(1, 5, NoValue, StartTime - DAY, NoValue, TRUE, FALSE),
            ApiLoan(1, 5, StartTime + DAY, StartTime - DAY, StartTime - DAY + 60, FALSE, TRUE)}

\* if (cancelSuccess): part_001 awaits cancelRental and goes on whatever happened
RelistUngated(main, cancelSuccess) == TRUE

RelistGated(main, cancelSuccess) == main = "part_001" \/ cancelSuccess

ApiEv(loan, path, cancel, create) ==
    [loan |-> loan, path |-> path, cancel |-> cancel, create |-> create]

\* cancelRental has returned c
ApiCanceled(main, loan, path, newVoxel, c) ==
    ApiEv(loan, path, IF c.ok THEN "ok" ELSE "fail",
          IF RelistGated(main, c.ok) THEN newVoxel ELSE NoValue)

\* the body of the loop over the loans for one loan, env the answer to its cancel
ApiLoanChecked(main, loan, env, t) ==
    IF isLoanExpired(loan.endTime, t)
    THEN ApiCanceled(main, loan, "expired",
            IF isLoanRentedQuickly(loan.timestamp, loan.startingTime, QUICK_RENTAL_MINUTES)
            THEN IncreasePrice(loan.voxel) ELSE loan.voxel,
            cancelRentalApi(env, loan.id, TxCancelLedger))
    ELSE IF /\ loan.isActive
            /\ isLoanListedGreatThanDays(loan.timestamp, PRICE_DROP_DAYS, t)
            /\ DecreaseAllowed(loan.voxel)
    THEN ApiCanceled(main, loan, "stale", DecreasePrice(loan.voxel),
            cancelRentalApi(env, loan.id, TxCancelLedger))
    ELSE ApiEv(loan, IF loan.isLoaned THEN "rented" ELSE "listed", "none", NoValue)

checkVoxiesRentals(main, rentals, envs, t) ==
    [k \in DOMAIN rentals |-> ApiLoanChecked(main, rentals[k], envs[k], t)]

ApiInit ==
    /\ PassInit
    /\ fileOk = TRUE
    /\ owner = TxOwner
    /\ file = << >>
    /\ loans = TxCancelLedger
    /\ txIn = NoTx
    /\ txOut = NoTx

RentalsChecked ==
    /\ txIn.op = "-"
    /\ \E main \in ApiMains, n \in 1..MaxRentals :
        \E rentals \in [1..n -> ApiLoans], envs \in [1..n -> CancelEnvs] :
            /\ txIn' = [op |-> "api", main |-> main, rentals |-> rentals, envs |-> envs]
            /\ txOut' = [op |-> "api", main |-> main,
                         evs |-> checkVoxiesRentals(main, rentals, envs, now)]
    /\ UNCHANGED passVars

ApiNext == RentalsChecked

SpecApi == ApiInit /\ [][ApiNext]_vars

-----------------------------------------------------------------------------
(* Passes over a store that has lost the loanId of a live listing: one asset,
   NFT #1, listed by the wallet, its record without loanId *)

DriftOwner == [c \in CollSet |-> [t \in Tokens |-> IF c = NFT /\ t = 1 THEN ME ELSE NONE]]

\* the listing the store has lost
DriftLoan == NewLoan(NFT, 1, DEFAULT_RENTAL_PRICE, 1, StartTime - DAY)

\* how the record came to be without loanId: the loanId was dropped after a
\* failed snapshot read, the create call returned without a loanId (the record
\* holds the token and time of its last attempt), or the record was never listed
\* by this store
DriftRecords ==
    {Rec(DEFAULT_RENTAL_PRICE, NFT, NoValue, 1, StartTime - DAY),
     Rec(DEFAULT_RENTAL_PRICE, NFT, NoValue, 2, StartTime - DAY),
     Rec(DEFAULT_RENTAL_PRICE, NFT, NoValue, NoValue, NoValue)}

\* the clock of the passes stops here
ClockEnd == StartTime + MaxDriftDays * DAY

\* m: the store file, mem: the map of the pass under way, L: the ledger,
\* u: the tokens drawn, t: the clock, at: where processRentals stands,
\* node: whether the node answers every query of the pass, tick: flips with
\* every pass
Drift(m, inPass, L, u, t, at, node, tick) ==
    [op |-> "drift", m |-> m, mem |-> inPass, L |-> L, u |-> u, t |-> t, at |-> at,
     node |-> node, tick |-> tick]

DriftStep(d) ==
    /\ txOut' = d
    /\ UNCHANGED <<txIn, passVars>>

\* the time of the next pass
LaterBy(d) == IF txOut.t + d > ClockEnd THEN ClockEnd ELSE txOut.t + d

\* the pass is over, saved or abandoned
DriftPassOver(m, o, d) ==
    Drift(m, << >>, o.loans, o.uctr, LaterBy(d), "idle", "-", ~txOut.tick)

\* manageTrackedRentals has returned o, or thrown
DriftTrackedOver(o, node, d) ==
    IF o.threw THEN DriftPassOver(txOut.m, o, d)
    ELSE [txOut EXCEPT !.mem = o.mem, !.L = o.loans, !.u = o.uctr, !.at = "discovery",
                       !.node = node]

DriftInit ==
    /\ PassInit
    /\ fileOk = TRUE
    /\ owner = DriftOwner
    /\ file = << >>
    /\ loans = <<>>
    /\ txIn = [op |-> "drift"]
    /\ \E r \in DriftRecords :
        txOut = Drift(Put(<< >>, 1, r), << >>, <<ForeignLoan, DriftLoan>>, 2, StartTime,
                      "idle", "-", FALSE)

\* the record still has no loanId
Drifted == Falsy(txOut.m[1].loanId)

\* the tracked phase of a pass every query of which is answered
DriftTrackedAnswered ==
    /\ txOut.at = "idle"
    /\ Drifted
    /\ \E d \in Delays :
        DriftStep(DriftTrackedOver(
            TrackedNoLoan(1, "ok", "ok", "ok", <<EnvOk, EnvOk, EnvOk>>, txOut.m, txOut.L,
                          txOut.u, owner, txOut.t),
            "up", d))

\* the tracked phase of a pass in which queries fail
DriftTrackedFaulty ==
    /\ txOut.at = "idle"
    /\ Drifted
    /\ \E o1 \in ReadAnswers, b \in ReadAnswers, d \in Delays :
        DriftStep(DriftTrackedOver(
            TrackedNoLoan(1, o1, "ok", b, <<EnvOk, EnvOk, EnvOk>>, txOut.m, txOut.L,
                          txOut.u, owner, txOut.t),
            "flaky", d))

\* the discovery phase and saveRentalPrices
DriftDiscovered ==
    /\ txOut.at = "discovery"
    /\ \E ix \in ReadAnswers, b \in ReadAnswers, d \in Delays :
        /\ txOut.node = "up" => (ix = "ok" /\ b = "ok")
        /\ DriftStep(DriftPassOver(
              DiscoverItem(1, NFT, ix, b, <<EnvOk, EnvOk, EnvOk>>, txOut.mem, txOut.L,
                           txOut.u, owner, txOut.t).mem,
              DiscoverItem(1, NFT, ix, b, <<EnvOk, EnvOk, EnvOk>>, txOut.mem, txOut.L,
                           txOut.u, owner, txOut.t),
              d))

\* somebody rents the lost listing
DriftRented ==
    /\ txOut.at = "idle"
    /\ Drifted
    /\ txOut.L[2].loanee = ZERO
    /\ ~txOut.L[2].canceled
    /\ \E d \in RentDelays :
        DriftStep([txOut EXCEPT !.L[2].loanee = SOMEONE,
                                !.L[2].startingTime = txOut.L[2].endTime - RENTAL_DURATION + d,
                                !.L[2].endTime = @ + d])

\* the owner cancels the lost listing by hand, outside the process
DriftCancelledOutside ==
    /\ txOut.at = "idle"
    /\ Drifted
    /\ CanCancel(txOut.L, 1)
    /\ isLoanExpired(txOut.L[2].endTime, txOut.t) \/ txOut.L[2].loanee = ZERO
    /\ DriftStep([txOut EXCEPT !.L = CancelLoan(@, 1)])

DriftNext ==
    \/ DriftTrackedAnswered
    \/ DriftTrackedFaulty
    \/ DriftDiscovered
    \/ DriftRented
    \/ DriftCancelledOutside

SpecDrift == DriftInit /\ [][DriftNext]_vars

\* the scheduler keeps starting passes, a pass that has started goes on, and
\* the node answers every query of a pass again and again
SpecDriftFair ==
    SpecDrift /\ SF_vars(DriftTrackedAnswered) /\ WF_vars(DriftDiscovered)

-----------------------------------------------------------------------------
(* Properties of a pass, stated over what the pass did (log) *)

Events == 1..Len(log)

IsEval(i, phase, paths) ==
    log[i].op = "eval" /\ log[i].phase = phase /\ log[i].res \in paths

\* the createVoxiesRental calls of the pass for asset (c, t)
CreatesFor(c, t) ==
    {i \in Events : log[i].op = "create" /\ log[i].c = c /\ log[i].t = t}

\* the pass has run its two phases and stands before saveRentalPrices
PassEnds == pc = "discEnter" /\ dcoll > Len(Collections)

\* event i ends the evaluation of a record whose create call failed
CreateFailedAt(i) == i > 1 /\ log[i - 1].op = "create" /\ log[i - 1].res = "fail"

CreateOkAt(i) == i > 1 /\ log[i - 1].op = "create" /\ log[i - 1].res = "ok"

CancelFailedAt(i) == i > 1 /\ log[i - 1].op = "cancel" /\ log[i - 1].res = "fail"

\* event i ends an Expired or Stale evaluation whose polls never saw the asset unbundled
PollTimedOutAt(i) ==
    /\ IsEval(i, "tracked", {"expired", "stale"})
    /\ i > 1
    /\ log[i - 1].op = "isBundled"
    /\ log[i - 1].res # "false"

\* C1: in one pass, a tracked record without loanId whose asset is held by the
\* wallet and is not bundled gets exactly one createVoxiesRental call, in the
\* two phases together, whether the call succeeds or not.
OneCreatePerUnlistedRecord ==
    PassEnds =>
        \A i \in Events :
            IsEval(i, "tracked", {"list"}) =>
                Cardinality(CreatesFor(log[i].c, log[i].t)) = 1

\* C2: once the loan of a record is read as canceled, the loanId is cleared and
\* nothing else happens to that asset in the rest of the pass: no cancel, no
\* create, no change of its record, the discovery phase included.
CanceledLoanLeftAlone ==
    \A i \in Events :
        (log[i].op = "snapshot" /\ log[i].res = "canceled") =>
            /\ i < Len(log) => log[i + 1].after.loanId = NoValue
            /\ \A j \in Events :
                (j > i + 1 /\ log[j].t = log[i].t) =>
                    /\ log[j].op \notin {"cancel", "create"}
                    /\ log[j].op = "eval" => log[j].after = log[j].before

\* C3: a pass run one cron period after a completed pass, with no change of the
\* ledger in between, calls neither createVoxiesRental nor cancelRental for an
\* asset the first pass listed.
SecondPassIdle ==
    (quiet /\ pc # "idle") =>
        \A i \in Events :
            log[i].op \in {"create", "cancel"} => <<log[i].c, log[i].t>> \notin prevListed

SecondPassIdleWitness ==
    /\ quiet
    /\ PassEnds
    /\ prevListed # {}
    /\ \E i \in Events : log[i].op = "snapshot" /\ <<log[i].c, log[i].t>> \in prevListed

\* C4: a createVoxiesRental call that follows a cancelRental call for the same
\* asset in a pass comes after that cancel returned true and directly after an
\* isBundled query for the asset answered false, with no other create for the
\* asset in between.
RelistAfterUnbundled ==
    \A j \in Events : \A i \in Events :
        (/\ log[j].op = "cancel"
         /\ log[i].op = "create"
         /\ j < i
         /\ log[i].c = log[j].c
         /\ log[i].t = log[j].t
         /\ \A k \in (j + 1)..(i - 1) : ~(log[k].op = "create" /\ log[k].t = log[j].t)) =>
            /\ log[j].res = "ok"
            /\ log[i - 1].op = "isBundled"
            /\ log[i - 1].res = "false"
            /\ log[i - 1].c = log[i].c
            /\ log[i - 1].t = log[i].t

RelistAfterUnbundledWitness ==
    \E j \in Events : \E i \in Events :
        /\ log[j].op = "cancel" /\ log[j].res = "ok"
        /\ i > j + 1
        /\ log[i].op = "create" /\ log[i].phase = "tracked" /\ log[i].t = log[j].t
        /\ log[i - 2].op = "isBundled" /\ log[i - 2].res = "throw"

\* C5: when the polls after a successful cancel never see the asset unbundled,
\* the relist is skipped, the loanId is cleared, and no createVoxiesRental call
\* is made for the asset in the whole pass.
NoCreateAfterPollTimeout ==
    \A i \in Events :
        PollTimedOutAt(i) =>
            /\ log[i].after.loanId = NoValue
            /\ CreatesFor(log[i].c, log[i].t) = {}

\* C6 as stated: in the Expired and the Stale path the record has no loanId at
\* the end of its evaluation when the cancel failed, and when the create after a
\* confirmed unbundling failed.
LoanIdDroppedOnAnyFailure ==
    \A i \in Events :
        (IsEval(i, "tracked", {"expired", "stale"}) /\ (CancelFailedAt(i) \/ CreateFailedAt(i))) =>
            log[i].after.loanId = NoValue

\* C6 as amended: in the Expired and the Stale path the record has no loanId at
\* the end of its evaluation when the create after a confirmed unbundling
\* failed; when the cancel failed the record is left as it was, loanId included.
LoanIdDroppedAfterCancel ==
    \A i \in Events :
        IsEval(i, "tracked", {"expired", "stale"}) =>
            /\ CreateFailedAt(i) => log[i].after = DropLoanId(log[i].before)
                                    /\ log[i].after.loanId = NoValue
            /\ CancelFailedAt(i) => log[i].after = log[i].before
                                    /\ log[i].after.loanId # NoValue

LoanIdDroppedAfterCancelWitness ==
    \E i \in Events :
        /\ IsEval(i, "tracked", {"expired", "stale"})
        /\ CreateFailedAt(i)
        /\ log[i].before.loanId # NoValue

\* C9: in the path of a record without loanId, the record gets loanId, bundleUUID
\* and timestamp when the create succeeded and only then; after a failed create
\* the caller sets nothing and the loanId stays absent.
ListedFieldsOnlyOnSuccess ==
    \A i \in Events :
        IsEval(i, "tracked", {"list"}) =>
            /\ CreateOkAt(i) =>
                /\ log[i].after.loanId = log[i - 1].id
                /\ log[i].after.bundleUUID # NoValue
                /\ log[i].after.timestamp = now
            /\ CreateFailedAt(i) =>
                /\ log[i].after.loanId = NoValue
                /\ log[i].after.bundleUUID = log[i].before.bundleUUID
                /\ log[i].after.timestamp = log[i].before.timestamp

-----------------------------------------------------------------------------
(* Properties of one call of the submitter *)

Called(op) == txOut.op = op

CreateFailed == Called("create") /\ txOut.res.loanId = NoValue

CancelFailed == Called("cancel") /\ ~txOut.res.ok

SubmitterNeverThrows ==
    (Called("create") \/ Called("cancel")) => ~txOut.res.threw

SubmitterNeverThrowsWitness ==
    /\ Called("create")
    /\ txIn.envs[1].wait = "error"
    /\ txIn.envs[2].fetch = "throw"
    /\ txIn.envs[MAX_RETRY_ATTEMPTS].pre = "gasError"
    /\ txOut.res.attempts = MAX_RETRY_ATTEMPTS
    /\ ~txOut.res.threw

\* the first LoanableItemCreated event of a receipt
FirstCreated(logs) ==
    CHOOSE i \in 1..Len(logs) :
        /\ logs[i].name = CREATED
        /\ \A k \in 1..(i - 1) : logs[k].name # CREATED

\* C10: createVoxiesRental returns a loanId only from the receipt of its last
\* attempt, which has success status and holds a LoanableItemCreated event, and
\* the loanId is the one of the first such event of that receipt.
LoanIdFromFirstEvent ==
    (Called("create") /\ txOut.res.loanId # NoValue) =>
        /\ txOut.res.receipt.status = 1
        /\ txIn.envs[txOut.res.attempts].status = 1
        /\ \E i \in 1..Len(txOut.res.receipt.logs) :
                txOut.res.receipt.logs[i].name = CREATED
        /\ txOut.res.loanId =
                txOut.res.receipt.logs[FirstCreated(txOut.res.receipt.logs)].arg

LoanIdFromFirstEventWitness ==
    /\ Called("create")
    /\ txOut.res.loanId # NoValue
    /\ txIn.envs[1].wait = "timeout"
    /\ txIn.envs[1].fetch = "null"
    /\ txIn.envs[2].shape = <<"created", "created2">>
    /\ txOut.res.attempts = 2

\* the answers envs with every receipt that came from the manual fetch handed
\* over by the wait instead
AsWaited(envs) ==
    [k \in DOMAIN envs |->
        IF envs[k].wait = "timeout" /\ envs[k].fetch = "receipt"
        THEN [envs[k] EXCEPT !.wait = "receipt", !.fetch = "-"]
        ELSE envs[k]]

\* the submissions of the call whose wait ended with a timeout
TimedOutSubs ==
    {k \in 1..Len(txOut.res.subs) : txIn.envs[txOut.res.subs[k].attempt].wait = "timeout"}

SameResult(a, b) ==
    /\ a.loanId = b.loanId
    /\ a.attempts = b.attempts
    /\ a.exit = b.exit
    /\ a.loans = b.loans
    /\ a.receipt = b.receipt

\* the part of C11 about createVoxiesRental
CreateFetchesOnTimeout ==
    Called("create") =>
        /\ txOut.res.fetches = Cardinality(TimedOutSubs)
        /\ SameResult(txOut.res,
                      createVoxiesRental(AsWaited(txIn.envs), TxCall, txIn.loans, uuidCtr))

CancelWaitTimedOut ==
    /\ Called("cancel")
    /\ txOut.res.submits = 1
    /\ txIn.env \in {"waitLostLanded", "waitLostDropped"}

\* C11 as stated: in createVoxiesRental and in cancelRental alike, a wait that
\* times out is followed by exactly one manual receipt fetch, whose receipt is
\* processed like one from the wait, and no other wait failure is.
BothFetchOnTimeout ==
    /\ CreateFetchesOnTimeout
    /\ CancelWaitTimedOut => txOut.res.fetches = 1

\* C11 as amended: createVoxiesRental makes exactly one manual receipt fetch per
\* attempt whose wait timed out, none after another wait failure, and processes
\* the fetched receipt like one from the wait; cancelRental never fetches a
\* receipt: a wait that times out makes it return false.
FetchOnTimeoutCreateOnly ==
    /\ CreateFetchesOnTimeout
    /\ Called("cancel") => txOut.res.fetches = 0
    /\ CancelWaitTimedOut => ~txOut.res.ok

FetchOnTimeoutCreateOnlyWitness ==
    /\ Called("create")
    /\ txIn.envs[1].wait = "error"
    /\ txIn.envs[2].wait = "timeout"
    /\ txIn.envs[2].fetch = "receipt"
    /\ txOut.res.fetches = 1
    /\ txOut.res.attempts = 2
    /\ txOut.res.loanId # NoValue

\* C12: an attempt whose receipt has failure status, or that got no receipt, is
\* never reported as success: cancelRental, in the per-loan-id variant and in
\* the aggregation-API variant, returns true only with a receipt of success
\* status, and createVoxiesRental returns a loanId only from such a receipt.
NoSuccessWithoutSuccessReceipt ==
    /\ ((Called("cancel") \/ Called("cancelApi")) /\ txOut.res.ok) => txOut.res.status = 1
    /\ (Called("create") /\ txOut.res.loanId # NoValue) => txOut.res.receipt.status = 1

-----------------------------------------------------------------------------
(* The decision taken on a record whose loan was read *)

\* event i ends the evaluation of a record whose loan was read as a live loan of
\* the wallet
Classed(i) == IsEval(i, "tracked", {"expired", "stale", "quiet", "rented"})

\* the cancelRental calls of the pass for the record of token t
CancelsFor(t) == {j \in Events : log[j].op = "cancel" /\ log[j].t = t}

\* the loan the record of evaluation i named, as the ledger has it
LoanOfEval(i) == LoanItems(loans, log[i].before.loanId)

\* the pass is under way: the ledger has not moved since the events of log
InPass == pc # "idle"

NotExpiredAt(i) == now <= LoanOfEval(i).endTime

\* the staleness rule in the words of the specification, for record r and its loan
StaleByRule(r, loan) ==
    /\ loan.loanee = ZERO
    /\ r.timestamp # NoValue
    /\ now - r.timestamp > 3 * 24 * 60 * 60
    /\ r.price > 3

\* C13: a tracked loan that is not expired is cancelled for staleness exactly
\* when it is unrented, its listedAt is more than 3 days old and its price is
\* above 3; the relist is then at floor(price * 0.9); a record whose price is
\* exactly 3 is never cancelled for staleness.
StaleExactlyByRule ==
    InPass =>
        \A i \in Events :
            (Classed(i) /\ NotExpiredAt(i)) =>
                /\ log[i].res = "stale" <=> StaleByRule(log[i].before, LoanOfEval(i))
                /\ Cardinality(CancelsFor(log[i].t)) = IF log[i].res = "stale" THEN 1 ELSE 0
                /\ (log[i].res = "stale" /\ log[i - 1].op = "create") =>
                        log[i - 1].price = (9 * log[i].before.price) \div 10
                /\ log[i].before.price = 3 => CancelsFor(log[i].t) = {}

StaleExactlyByRuleWitness ==
    /\ InPass
    /\ \E i \in Events :
        /\ Classed(i) /\ NotExpiredAt(i)
        /\ log[i].res = "stale"
        /\ log[i].before.price = 10
        /\ CreateOkAt(i)
        /\ log[i - 1].price = 9
        /\ log[i].after.price = 9

\* event i ends the evaluation of a record of the given price whose listing is
\* four days old or older, unrented and not expired
OldUnrentedAt(i, price) ==
    /\ Classed(i)
    /\ NotExpiredAt(i)
    /\ LoanOfEval(i).loanee = ZERO
    /\ log[i].before.price = price
    /\ log[i].before.timestamp # NoValue
    /\ now - log[i].before.timestamp >= 4 * 24 * 60 * 60

\* C14 as stated: for a record of price 4 whose listing is 4 days old, unrented
\* and not expired, the staleness decrease does not trigger: no cancel and no
\* relist are submitted.
NoDecreaseAtFour ==
    InPass =>
        \A i \in Events :
            OldUnrentedAt(i, 4) =>
                /\ log[i].res # "stale"
                /\ CancelsFor(log[i].t) = {}
                /\ CreatesFor(log[i].c, log[i].t) = {}

\* C14 as amended: for a record of price 4 whose listing is 4 days old, unrented
\* and not expired, the staleness decrease triggers, the guard being on the
\* current price: the loan is cancelled once and a relist is at price 3, which a
\* successful relist stores; for a record of price 3 it does not trigger.
DecreaseAtFourNotAtThree ==
    InPass =>
        \A i \in Events :
            /\ OldUnrentedAt(i, 4) =>
                    /\ log[i].res = "stale"
                    /\ Cardinality(CancelsFor(log[i].t)) = 1
                    /\ log[i - 1].op = "create" => log[i - 1].price = 3
                    /\ CreateOkAt(i) => log[i].after.price = 3
            /\ OldUnrentedAt(i, 3) =>
                    /\ log[i].res = "quiet"
                    /\ CancelsFor(log[i].t) = {}
                    /\ CreatesFor(log[i].c, log[i].t) = {}

DecreaseAtFourNotAtThreeWitness ==
    /\ InPass
    /\ \E i \in Events :
        /\ OldUnrentedAt(i, 4)
        /\ CreateOkAt(i)
        /\ log[i - 1].price = 3
        /\ log[i].after.price = 3

-----------------------------------------------------------------------------
(* The price of a record *)

\* C15: over any sequence of quick-rental increases and staleness decreases, a
\* price that starts at 3 or more never becomes less than 3; every increase
\* yields an integer that is at least the old price and at least 1.1 times it
\* (rounded up), every decrease an integer that is at most the old price and
\* at most 0.9 times it (rounded down).
PriceFloorKept ==
    txOut.op = "price" =>
        /\ txOut.price \in Int
        /\ txIn.start >= 3 => txOut.price >= 3
        /\ txOut.how = "increase" =>
                /\ txOut.price >= txOut.prev
                /\ 10 * txOut.price >= 11 * txOut.prev
        /\ txOut.how = "decrease" =>
                /\ txOut.price <= txOut.prev
                /\ 10 * txOut.price <= 9 * txOut.prev

PriceFloorKeptWitness ==
    /\ txOut.op = "price"
    /\ txIn.start = 5
    /\ txOut.how = "decrease"
    /\ txOut.prev = 4
    /\ txOut.price = 3

\* the exact ceiling of 11p/10
CeilOfTenPercentMore(p) == (11 * p + 9) \div 10

\* the record of evaluation i was rented within 180 minutes of its listing, both
\* times known
RentedQuicklyAt(i) ==
    /\ LoanOfEval(i).loanee # ZERO
    /\ log[i].before.timestamp # NoValue
    /\ LoanOfEval(i).startingTime - log[i].before.timestamp < 180 * 60

\* the price the specification gives the relist of the expired loan of evaluation i
ExpiredPriceByRule(i) ==
    IF RentedQuicklyAt(i) THEN CeilOfTenPercentMore(log[i].before.price)
    ELSE log[i].before.price

\* C16: the relist of an expired loan after a successful cancel and a confirmed
\* unbundling is at the exact ceiling of price * 11/10 when the loan was rented
\* within 180 minutes of its listing, both times known, and at the unchanged
\* price otherwise; when the relist succeeds the record holds the new loanId,
\* the new listedAt and the price used.
ExpiredRelistAtExactCeiling ==
    InPass =>
        \A i \in Events :
            (IsEval(i, "tracked", {"expired"}) /\ log[i - 1].op = "create") =>
                /\ log[i - 1].price = ExpiredPriceByRule(i)
                /\ CreateOkAt(i) =>
                        /\ log[i].after.loanId = log[i - 1].id
                        /\ log[i].after.timestamp = now
                        /\ log[i].after.price = log[i - 1].price

\* C17: a loan that is expired and also meets the staleness rule is handled as
\* Expired: it is cancelled once, and its relist is never at floor(price * 0.9).
ExpiredBeforeStale ==
    InPass =>
        \A i \in Events :
            (/\ Classed(i)
             /\ ~NotExpiredAt(i)
             /\ StaleByRule(log[i].before, LoanOfEval(i))) =>
                /\ log[i].res = "expired"
                /\ Cardinality(CancelsFor(log[i].t)) = 1
                /\ \A j \in CreatesFor(log[i].c, log[i].t) :
                        log[j].price # (9 * log[i].before.price) \div 10

ExpiredBeforeStaleWitness ==
    /\ InPass
    /\ \E i \in Events :
        /\ Classed(i)
        /\ ~NotExpiredAt(i)
        /\ StaleByRule(log[i].before, LoanOfEval(i))
        /\ CreateOkAt(i)
        /\ log[i - 1].price = log[i].before.price

\* C18: a tracked loan that is rented and not expired is left alone for the
\* whole pass: no cancel and no create for its asset, and its record (loanId,
\* price, listedAt, correlation token) is unchanged.
RentedLeftAlone ==
    InPass =>
        \A i \in Events :
            (Classed(i) /\ NotExpiredAt(i) /\ LoanOfEval(i).loanee # ZERO) =>
                /\ log[i].res = "rented"
                /\ log[i].after = log[i].before
                /\ mem[log[i].t] = log[i].before
                /\ CancelsFor(log[i].t) = {}
                /\ CreatesFor(log[i].c, log[i].t) = {}

\* the asset of the record of evaluation i is not the wallet's: the token of the
\* collection the record names is owned by another address, or no collection
\* knows the token id
AssetNotOwnedAt(i) ==
    \/ /\ log[i].before.nftAddress \in CollSet
       /\ owner[log[i].before.nftAddress][log[i].t] = SOMEONE
    \/ \A c \in CollSet : owner[c][log[i].t] = NONE

\* C19: a tracked record without loanId whose asset is not owned by the wallet
\* keeps every field through the pass, stays in the store, and no transaction is
\* submitted for it.
NotOwnedLeftAlone ==
    InPass =>
        \A i \in Events :
            (IsEval(i, "tracked", {"notOwned", "notFound"}) /\ AssetNotOwnedAt(i)) =>
                /\ log[i].after = log[i].before
                /\ log[i].t \in DOMAIN mem
                /\ mem[log[i].t] = log[i].before
                /\ CancelsFor(log[i].t) = {}
                /\ CreatesFor(log[i].before.nftAddress, log[i].t) = {}

\* event i is the isBundled query made before a listing: the one of the
\* discovery phase, or the one that follows the ownerOf probes of a record
\* without loanId (the others are the polls after a cancel)
IsListingCheck(i) ==
    /\ log[i].op = "isBundled"
    /\ \/ log[i].phase = "discovery"
       \/ i > 1 /\ log[i - 1].op = "ownerOf"

\* C20: in the tracked phase and in the discovery phase, when isBundled answers
\* true for an asset whose record has no loanId, or that has no record, the
\* asset is skipped: no createVoxiesRental call follows the check, and the
\* store entry of the token is neither created nor modified.
BundledAssetSkipped ==
    \A i \in Events :
        (IsListingCheck(i) /\ log[i].res = "true") =>
            /\ i < Len(log)
            /\ IsEval(i + 1, log[i].phase, {"bundled"})
            /\ log[i + 1].t = log[i].t
            /\ log[i + 1].c = log[i].c
            /\ Falsy(log[i + 1].before.loanId) \/ log[i + 1].before.nftAddress # log[i].c
            /\ log[i + 1].after = log[i + 1].before

BundledAssetSkippedWitness ==
    \E i \in Events : \E j \in Events :
        /\ IsListingCheck(i) /\ log[i].res = "true" /\ log[i].phase = "tracked"
        /\ IsListingCheck(j) /\ log[j].res = "true" /\ log[j].phase = "discovery"
        /\ log[j + 1].before.loanId = NoValue

-----------------------------------------------------------------------------
(* Records whose loan is not the wallet's, the store, the scheduler *)

\* C21: when the loan of a tracked record cannot be read, or is owned by
\* another address, the loanId is dropped, no cancel is submitted for the loan,
\* and nothing lists the asset in the rest of the pass.
UnreadableOrForeignDeferred ==
    \A i \in Events :
        IsEval(i, "tracked", {"readError", "foreign"}) =>
            /\ log[i].after.loanId = NoValue
            /\ CancelsFor(log[i].t) = {}
            /\ CreatesFor(log[i].c, log[i].t) = {}

\* the ownerOf query of the pass for token t in collection c failed
OwnerQueryFailed(c, t) ==
    \E j \in Events :
        log[j].op = "ownerOf" /\ log[j].c = c /\ log[j].t = t /\ log[j].res = "throw"

\* C22: the tracked phase decides the ownership of a record without loanId by
\* probing every collection: a record it has passed over without a listing has
\* no collection in which the wallet holds the token unbundled, unless the
\* ownership query on that collection failed.
OwnedInAnyCollectionListed ==
    pc = "tracked" =>
        \A i \in Events :
            IsEval(i, "tracked", {"notOwned", "notFound", "bundled"}) =>
                \A c \in CollSet :
                    (owner[c][log[i].t] = ME /\ ~OwnerQueryFailed(c, log[i].t)) =>
                        Bundled(loans, c, log[i].t)

\* C23: a run whose liveness check fails, or would fail, does nothing: the
\* store is not loaded and not written and no transaction is submitted, in the
\* run at process start as in every scheduled run.
NoRunWhenUnhealthy ==
    txOut.op = "main" =>
        \A k \in DOMAIN txOut.runs :
            txOut.runs[k].net = "down" =>
                /\ txOut.runs[k].at \in {"health", "skipped"}
                /\ ~txOut.runs[k].acted

\* the runs that have loaded the store and not yet written it
RunsInFlight ==
    {k \in DOMAIN txOut.runs : txOut.runs[k].at \in {"tracked", "discovery"}}

\* C29: passes never overlap: at every moment at most one run is between its
\* store load and its store write; a cron tick that fires while a run is under
\* way starts no second pass.
PassesNeverOverlap ==
    txOut.op = "main" => Cardinality(RunsInFlight) <= 1

\* C24: while the store file cannot be read or parsed the pass is skipped: no
\* run leaves the idle state, no createListing and no cancel is submitted, and
\* the file is not overwritten.
UnreadableStoreSkipsPass ==
    [][~fileOk =>
          /\ pc' = "idle"
          /\ file' = file
          /\ \A i \in 1..Len(log') : log'[i].op \notin {"create", "cancel"}]_vars

\* C25: the store file is written only by the last statement of a pass, after
\* both phases, as the whole in-memory mapping, and so at most once per pass;
\* at every earlier step of the pass, and in a pass that is abandoned, the file
\* stays as it was loaded.
StoreWrittenOnlyAtEnd ==
    [][file' # file =>
          /\ PassEnds
          /\ pc' = "idle"
          /\ file' = saveRentalPrices(mem)]_vars

\* a pass was abandoned after it had listed an asset, and the file shows no listing
StoreWrittenOnlyAtEndWitness ==
    /\ pc = "idle"
    /\ log # <<>>
    /\ log[Len(log)] = AbortEv
    /\ \E i \in Events : IsEval(i, "tracked", {"list"}) /\ CreateOkAt(i)
    /\ \A t \in DOMAIN file : file[t].rec.loanId = NoValue

\* the pass has changed nothing about token t
NoActionOn(t) ==
    \A i \in Events : (log[i].op = "eval" /\ log[i].t = t) => log[i].after = log[i].before

\* the entry written for an entry read: a bare price becomes the object
\* {price, nftAddress: ""}, everything else is as it was
EntryPreserved(old, new) ==
    IF old.shape = "number"
    THEN new = FileObject(Rec(old.rec.price, "", NoValue, NoValue, NoValue))
    ELSE new = old

\* C26: loading the store and saving it again keeps every entry the pass took
\* no action on: its key is still there, a bare price has become {price,
\* nftAddress: ""}, and an entry of another or of unrecognised shape is as it was.
StoreRoundTrip ==
    [][(fileOk /\ file' # file) =>
          \A t \in DOMAIN file :
              NoActionOn(t) =>
                  /\ t \in DOMAIN file'
                  /\ EntryPreserved(file[t], file'[t])]_vars

\* discovery has looked at an enumerated asset and decided about it
DiscoveryDecided(i) == IsEval(i, "discovery", {"tracked", "bundled", "list"})

\* the asset is absent from the store, or its record has no loanId, or its
\* record names another collection than the one it was found in
NeedsFreshListing(i) ==
    \/ log[i].before = NoRec
    \/ log[i].before.loanId = NoValue
    \/ log[i].before.nftAddress # log[i].c

\* isBundled was asked for the asset and answered true
AnsweredBundled(i) == log[i - 1].op = "isBundled" /\ log[i - 1].res = "true"

\* C27: discovery calls createVoxiesRental for an enumerated asset exactly when
\* isBundled is false for it and the asset is absent from the store, or its
\* record has no loanId, or its record names another collection; a held asset
\* whose record has a loanId and the same collection is never listed by it.
DiscoveryListsExactlyUntracked ==
    \A i \in Events :
        DiscoveryDecided(i) =>
            ((log[i - 1].op = "create") <=> (~AnsweredBundled(i) /\ NeedsFreshListing(i)))

\* C28: every listing discovery submits is priced at the price of the asset's
\* record whenever the asset has a record, the price 0 included, and at the
\* default price only when the asset has no record.
DiscoveryUsesRecordedPrice ==
    \A i \in Events :
        (log[i].op = "create" /\ log[i].phase = "discovery") =>
            log[i].price = IF log[i + 1].before = NoRec
                           THEN DEFAULT_RENTAL_PRICE
                           ELSE log[i + 1].before.price

\* the create transactions one call of createVoxiesRental has submitted
Submissions == txOut.res.subs

\* the submission whose receipt gave the returned loanId: the last one
Producing == Submissions[Len(Submissions)]

\* C30: every create transaction a call submits, retries included, carries a
\* correlation token that no earlier submission carried, and when the call
\* returns a loanId the token it returns is the one of the transaction whose
\* receipt gave that loanId, which is the token the ledger holds for its loan.
FreshTokenPerSubmission ==
    txOut.op = "create" =>
        /\ \A i \in DOMAIN Submissions :
              /\ Submissions[i].uuid > uuidCtr
              /\ \A j \in DOMAIN Submissions : j < i => Submissions[j].uuid # Submissions[i].uuid
        /\ txOut.res.loanId # NoValue =>
              /\ Submissions # <<>>
              /\ Producing.landed
              /\ txOut.res.uuid = Producing.uuid
              /\ txOut.res.loans[Producing.id + 1].uuid = txOut.res.uuid

\* a call that submitted twice and returned the loanId of its second transaction
FreshTokenPerSubmissionWitness ==
    /\ txOut.op = "create"
    /\ Len(Submissions) = 2
    /\ txOut.res.loanId # NoValue
    /\ txOut.res.attempts = 2

\* a record that names a loan also names the time of its listing
ListedAtPresent(r) == r.loanId # NoValue => r.timestamp # NoValue

\* C31: started on a store whose records with a loanId all have a timestamp,
\* every record with a loanId has a timestamp, in memory during a pass and in
\* the store file after it.
LoanIdImpliesListedAt ==
    /\ \A t \in DOMAIN mem : ListedAtPresent(mem[t])
    /\ \A t \in DOMAIN file : ListedAtPresent(file[t].rec)

\* a pass has listed an asset whose record had neither loanId nor timestamp,
\* and the record in memory names the new loan
LoanIdImpliesListedAtWitness ==
    \E i \in Events :
        /\ log[i].op = "eval"
        /\ log[i].res = "list"
        /\ CreateOkAt(i)
        /\ log[i].before.timestamp = NoValue
        /\ log[i].t \in DOMAIN mem
        /\ mem[log[i].t].loanId # NoValue

\* C32: every pass terminates whatever the ledger does: no wait of the pass
\* lasts forever, so the pass reaches the end of processRentals.
PassAlwaysTerminates == <>(txOut.at = "done")

\* the later revisions of the API variant
LaterRevisions == {"index.ts", "part_002"}

\* C33: in the later revisions of the API variant a createVoxiesRental for an
\* expired or stale loan is called only when cancelRental of that loan returned
\* true in the same iteration; when it returned false nothing is relisted.
RelistOnlyAfterCancelSuccess ==
    (txOut.op = "api" /\ txOut.main \in LaterRevisions) =>
        \A k \in DOMAIN txOut.evs :
            /\ txOut.evs[k].create # NoValue => txOut.evs[k].cancel = "ok"
            /\ txOut.evs[k].cancel = "fail" => txOut.evs[k].create = NoValue

\* one run of index.ts in which the cancel of a stale loan failed and nothing
\* was relisted, and the cancel of an expired loan succeeded and it was relisted
RelistOnlyAfterCancelSuccessWitness ==
    /\ txOut.op = "api"
    /\ txOut.main = "index.ts"
    /\ Len(txOut.evs) = 2
    /\ txOut.evs[1].path = "stale"
    /\ txOut.evs[1].cancel = "fail"
    /\ txOut.evs[1].create = NoValue
    /\ txOut.evs[2].path = "expired"
    /\ txOut.evs[2].cancel = "ok"
    /\ txOut.evs[2].create = IncreasePrice(txOut.evs[2].loan.voxel)

\* evaluation i has left the asset's record with another price than it had
PriceChangedAt(i) ==
    /\ log[i].op = "eval"
    /\ log[i].before # NoRec
    /\ log[i].after.price # log[i].before.price

\* C34: the price of a record changes only in an evaluation whose
\* createVoxiesRental succeeded, and then to the price passed to that call; when
\* the cancel, the unbundling confirmation or the relisting fails the record
\* keeps the price it had before the evaluation.
PriceChangesOnlyOnRelist ==
    \A i \in Events :
        PriceChangedAt(i) => (CreateOkAt(i) /\ log[i].after.price = log[i - 1].price)

\* C35: when createVoxiesRental returns no loanId the caller records no listing:
\* in the tracked path of a record without loanId the record keeps its
\* timestamp and bundleUUID, and in discovery no entry of the store is created
\* or replaced for the asset.
FailedCreateRecordsNothing ==
    \A i \in Events :
        (log[i].op = "eval" /\ log[i].res = "list" /\ CreateFailedAt(i)) =>
            IF log[i].phase = "tracked"
            THEN /\ log[i].after.timestamp = log[i].before.timestamp
                 /\ log[i].after.bundleUUID = log[i].before.bundleUUID
            ELSE log[i].after = log[i].before

\* the submissions of the call whose transaction created a listing
Landed == {i \in DOMAIN Submissions : Submissions[i].landed}

\* what the call could learn about submission i: the answers to its attempt
AnswersTo(i) == txIn.envs[Submissions[i].attempt]

\* the call never saw a receipt of submission i, or saw a success receipt
\* without a LoanableItemCreated event
EffectUnseen(i) ==
    \/ AnswersTo(i).wait = "timeout" /\ AnswersTo(i).fetch \in {"null", "throw"}
    \/ /\ AnswersTo(i).status = 1
       /\ ParseLoanId(ReceiptOf(AnswersTo(i), Submissions[i].id).logs) = NoValue

PassReachesSave ==
    \A i \in Events : log[i].op # "abort"

\* C38: a listing of the wallet whose record has lost its loanId is recovered:
\* with passes that keep running and a node that answers, some pass gives the
\* record a loanId again (the lost one, or that of a relisting after expiry).
DriftEventuallyRecovered == <>(~Drifted)

\* the record names a loan of the wallet that is not canceled
NamesLiveLoan(r) ==
    /\ r.loanId # NoValue
    /\ r.loanId \in LoanIds(loans)
    /\ loans[r.loanId + 1].owner = ME
    /\ ~loans[r.loanId + 1].canceled

\* C39: discovery never replaces a record whose loanId names a live loan of the
\* wallet, also when the wallet holds the same token id in both collections, so
\* no listing the store tracks is orphaned by it.
DiscoveryKeepsLiveRecords ==
    InPass =>
        \A i \in Events :
            (log[i].op = "eval" /\ log[i].phase = "discovery" /\ NamesLiveLoan(log[i].before))
                => log[i].after = log[i].before

\* the ways an evaluation of the tracked phase ends for a record without loanId
NoLoanPaths == {"list", "bundled", "notOwned", "notFound"}

\* C40: a record whose loanId is 0 counts as a record with an active loan: the
\* tracked phase fetches the snapshot of loan 0 for it and never evaluates it as
\* a record without loanId.
LoanIdZeroIsTracked ==
    \A i \in Events :
        (log[i].op = "eval" /\ log[i].phase = "tracked" /\ log[i].before.loanId = 0)
            => log[i].res \notin NoLoanPaths

====
